---- MODULE Spec2Model ----
(***************************************************************************)
(* Model of the schema/query derivation engine (sql/model) and of the      *)
(* versioned migration runner (sql/migration) of almerlucke/go-utils.      *)
(*                                                                         *)
(* Strings whose content matters (version strings, identifiers) are        *)
(* sequences of one-character strings, so that Go's byte-wise string       *)
(* comparison is computed and not assumed.                                 *)
(***************************************************************************)
EXTENDS Integers, Sequences, FiniteSets, TLC

VARIABLES
    store,      \* the backing database: the _migration table and its rows
    runs,       \* number of Migrate calls started; also the wall clock read by types.NewDateTime()
    pc,         \* position of the (single) caller inside Migrate
    target,     \* Migrate's currentVersion argument
    versions,   \* Migrate's versions argument ([]*Version)
    info,       \* Migrate's local info (*Info)
    gi,         \* index of the group whose migration runs next
    mi,         \* index of the migration that runs next inside group gi
    log,        \* calls made on the queryer (and migrations invoked) in this run, in order
    result,     \* value returned by the last Migrate run ("none" while running)
    pre,        \* the store as it was when the current run was entered
    record,     \* the record value (template) handed to NewTable
    tpc,        \* "start" before NewTable has run, "built" after
    tbl,        \* what NewTable returned
    ddl,        \* the statement the last table.TableQuery() returned (<<>> before any)
    out,        \* what the last Table operation returned (n: the number of objects of an
                \* Insert, the number of the object of a Delete, the number of builder
                \* calls before a Query)
    calls,      \* the calls the last Table operation made on the queryer
    tmpl,       \* the template text under observation, as the pieces it is made of
    sel,        \* the Select under construction
    trace,      \* the builder methods called on sel so far, with their arguments
    tx,         \* the transaction of the current Transactional call and what was called on it
    database,   \* the database: the committed writes, the transactions left open
    thr,        \* the concurrent callers of one Table: each one's operation in progress
    heap,       \* the Selects made so far; a *Select is an index into it
    prev        \* what the caller who retries Migrate keeps of the run that failed

migVars == <<store, runs, pc, target, versions, info, gi, mi, log, result, pre>>

tabVars == <<record, tpc, tbl, ddl, out, calls>>

selVars == <<tmpl, sel, trace>>

\* What the actions of one component leave alone.
txVars == <<tx, database>>

notMig == <<tabVars, selVars, txVars, thr, heap, prev>>
notTab == <<migVars, prev, selVars, txVars, thr, heap>>
notSel == <<migVars, prev, ddl, calls, txVars, thr, heap>>
notTx == <<migVars, prev, tabVars, selVars, thr, heap>>
notThr == <<migVars, prev, ddl, out, calls, selVars, txVars, heap>>
notHeap == <<migVars, prev, record, tpc, tbl, ddl, selVars, txVars, thr>>
notRun == <<tabVars, selVars, txVars, thr, heap>>

vars == <<migVars, tabVars, selVars, txVars, thr, heap, prev>>

----------------------------------------------------------------------------
(* Bounds *)

MaxRuns == 3
MaxGroups == 2
MaxMigs == 2
MaxFields == 2
MaxRecords == 2
MaxPieces == 3
MaxCalls == 5
MaxTx == 3
MaxExecs == 2
MaxCallers == 2
MaxSelects == 3
MaxClauses == 1
MaxKeys == 2

----------------------------------------------------------------------------
(* Strings *)

\* Byte values of the characters used in version strings (ASCII).
Ord == ("." :> 46) @@ ("0" :> 48) @@ ("1" :> 49) @@ ("2" :> 50) @@ ("9" :> 57)

V0 == <<"0">>
V1_0 == <<"1", ".", "0">>
V1_1 == <<"1", ".", "1">>
V1_2 == <<"1", ".", "2">>
V2_0 == <<"2", ".", "0">>
V9 == <<"9">>
V10 == <<"1", "0">>

\* Go's < on strings: byte-wise lexicographic, a proper prefix is smaller.
RECURSIVE StrLess(_, _)
StrLessShortlex(a, b) ==
    \/ Len(a) < Len(b)
    \/ Len(a) = Len(b) /\ \E k \in 1..Len(a) :
          /\ Ord[a[k]] < Ord[b[k]]
          /\ \A j \in 1..(k - 1) : a[j] = b[j]
StrLess(a, b) ==
    IF b = <<>> THEN FALSE
    ELSE IF a = <<>> THEN TRUE
    ELSE IF Ord[Head(a)] < Ord[Head(b)] THEN TRUE
    ELSE IF Ord[Head(a)] > Ord[Head(b)] THEN FALSE
    ELSE StrLess(Tail(a), Tail(b))

StrLessEq(a, b) == a = b \/ StrLess(a, b)

----------------------------------------------------------------------------
(* Text.  A Go string is a sequence of atoms.  Identifiers and column names  *)
(* are written character by character; in tags and SQL text the separators  *)
(* "," and "=" are atoms of their own and a directive keyword or a raw SQL   *)
(* fragment (which holds no separator) is one atom.  "" is <<>>.             *)

\* The atom that stands for the back-quote character (a TLA+ string cannot hold one).
BackQuote == "[backquote]"

UpperSeq == <<"A", "B", "C", "D", "E", "F", "G", "H", "I", "J", "K", "L", "M",
              "N", "O", "P", "Q", "R", "S", "T", "U", "V", "W", "X", "Y", "Z">>
LowerSeq == <<"a", "b", "c", "d", "e", "f", "g", "h", "i", "j", "k", "l", "m",
              "n", "o", "p", "q", "r", "s", "t", "u", "v", "w", "x", "y", "z">>
DigitSeq == <<"0", "1", "2", "3", "4", "5", "6", "7", "8", "9">>

Range(f) == {f[k] : k \in DOMAIN f}
IsUpper(c) == c \in Range(UpperSeq)
IsLower(c) == c \in Range(LowerSeq)
IsDigit(c) == c \in Range(DigitSeq)

\* strings.ToLower on one character.
ToLower(c) ==
    IF IsUpper(c) THEN LowerSeq[CHOOSE k \in DOMAIN UpperSeq : UpperSeq[k] = c] ELSE c

\* Last index of the greedy run [a-z]+ that starts at index j.
RECURSIVE LowerRunEnd(_, _)
LowerRunEnd(s, j) ==
    IF j + 1 <= Len(s) /\ IsLower(s[j + 1]) THEN LowerRunEnd(s, j + 1) ELSE j

\* matchFirstCap.ReplaceAllString(name, "${1}_${2}") with matchFirstCap = (.)([A-Z][a-z]+)
RECURSIVE ReplaceFirstCap(_, _)
ReplaceFirstCap(s, i) ==
    IF i > Len(s) THEN <<>>
    ELSE IF i + 2 <= Len(s) /\ IsUpper(s[i + 1]) /\ IsLower(s[i + 2])
         THEN LET e == LowerRunEnd(s, i + 2)
              IN  <<s[i], "_">> \o SubSeq(s, i + 1, e) \o ReplaceFirstCap(s, e + 1)
         ELSE <<s[i]>> \o ReplaceFirstCap(s, i + 1)

\* matchAllCap.ReplaceAllString(snake, "${1}_${2}") with matchAllCap = ([a-z0-9])([A-Z])
RECURSIVE ReplaceAllCap(_, _)
ReplaceAllCap(s, i) ==
    IF i > Len(s) THEN <<>>
    ELSE IF i + 1 <= Len(s) /\ (IsLower(s[i]) \/ IsDigit(s[i])) /\ IsUpper(s[i + 1])
         THEN <<s[i], "_", s[i + 1]>> \o ReplaceAllCap(s, i + 2)
         ELSE <<s[i]>> \o ReplaceAllCap(s, i + 1)

\* part_005:64-68
nameToMySQLName(name) ==
    LET snake == ReplaceAllCap(ReplaceFirstCap(name, 1), 1)
    IN  [k \in 1..Len(snake) |-> ToLower(snake[k])]

\* strings.Split(s, sep) for a one-atom separator.
RECURSIVE SplitFrom(_, _, _, _)
SplitFrom(s, sep, i, cur) ==
    IF i > Len(s) THEN <<cur>>
    ELSE IF s[i] = sep THEN <<cur>> \o SplitFrom(s, sep, i + 1, <<>>)
    ELSE SplitFrom(s, sep, i + 1, Append(cur, s[i]))
Split(s, sep) == SplitFrom(s, sep, 1, <<>>)

\* strings.SplitN(s, sep, 2)
SplitN2(s, sep) ==
    IF \E k \in 1..Len(s) : s[k] = sep
    THEN LET k == CHOOSE k \in 1..Len(s) : s[k] = sep /\ \A j \in 1..(k - 1) : s[j] # sep
         IN  <<SubSeq(s, 1, k - 1), SubSeq(s, k + 1, Len(s))>>
    ELSE <<s>>

\* Concatenation of the tokens written to a buffer.
RECURSIVE Flatten(_)
Flatten(toks) == IF toks = <<>> THEN <<>> ELSE Head(toks) \o Flatten(Tail(toks))

----------------------------------------------------------------------------
(* Record types handed to the schema builder *)

\* strconv.IntSize of the build.
IntSize == 64

Type(kind) == [kind |-> kind, elem |-> "", pkg |-> "", name |-> ""]
SliceOf(elem) == [kind |-> "Slice", elem |-> elem, pkg |-> "", name |-> ""]
Named(kind, pkg, name) == [kind |-> kind, elem |-> "", pkg |-> pkg, name |-> name]
SQLPkg == "github.com/almerlucke/go-utils/sql"

\* part_005:70-129
fieldToMySQLType(t) ==
    CASE t.kind = "Int" -> IF IntSize = 32 THEN <<"int">> ELSE IF IntSize = 64 THEN <<"bigint">> ELSE <<>>
      [] t.kind = "Int8" -> <<"tinyint">>
      [] t.kind = "Int16" -> <<"smallint">>
      [] t.kind = "Int32" -> <<"int">>
      [] t.kind = "Int64" -> <<"bigint">>
      [] t.kind = "Uint" -> IF IntSize = 32 THEN <<"int unsigned">>
                            ELSE IF IntSize = 64 THEN <<"bigint unsigned">> ELSE <<>>
      [] t.kind = "Uint8" -> <<"tinyint unsigned">>
      [] t.kind = "Uint16" -> <<"smallint unsigned">>
      [] t.kind = "Uint32" -> <<"int unsigned">>
      [] t.kind = "Uint64" -> <<"bigint unsigned">>
      [] t.kind = "Float32" -> <<"float">>
      [] t.kind = "Float64" -> <<"double">>
      [] t.kind = "String" -> <<"text">>
      [] t.kind = "Bool" -> <<"tinyint(1)">>
      [] t.kind \in {"Array", "Slice"} -> IF t.elem = "Uint8" THEN <<"blob">> ELSE <<>>
      [] OTHER -> IF t.pkg = SQLPkg /\ t.name = "Date" THEN <<"date">>
                  ELSE IF t.pkg = SQLPkg /\ t.name = "DateTime" THEN <<"datetime">>
                  ELSE <<>>

\* A struct field as reflect reports it: name, type, the values of its db and sql
\* tags, whether it is embedded, and for a struct type its own fields.
Field(name, type, db, sql) ==
    [name |-> name, type |-> type, db |-> db, sql |-> sql, anonymous |-> FALSE, sub |-> <<>>]
Embedded(name, type, sub) ==
    [name |-> name, type |-> type, db |-> <<>>, sql |-> <<>>, anonymous |-> TRUE, sub |-> sub]

\* reflect.StructField.PkgPath is empty exactly for an upper-case field name.
IsExportable(f) == f.name # <<>> /\ IsUpper(f.name[1])

----------------------------------------------------------------------------
(* Schema builder, src/unnamed/part_005 (package model) *)

\* &ColumnDescriptor{Type: fieldToMySQLType(field), Name: nameToMySQLName(fieldName), ActualName: fieldName}
NewColumn(f) ==
    [Name |-> nameToMySQLName(f.name), Type |-> fieldToMySQLType(f.type), Raw |-> <<>>,
     OverrideType |-> FALSE, IsPrimary |-> FALSE, ActualName |-> f.name, Auto |-> FALSE]

\* One iteration of parseSQLTag's loop (part_005:135-154) on [skip, col].
ParseComponent(acc, component) ==
    IF component = <<"-">> THEN [acc EXCEPT !.skip = TRUE]
    ELSE IF component = <<"override">> THEN [acc EXCEPT !.col.OverrideType = TRUE]
    ELSE IF component = <<"primary">> THEN [acc EXCEPT !.col.IsPrimary = TRUE]
    ELSE IF component = <<"auto">> THEN [acc EXCEPT !.col.Auto = TRUE]
    ELSE IF component # <<>>
         THEN LET defs == SplitN2(component, "=")
              IN  IF Len(defs) = 2
                  THEN IF defs[1] = <<"name">> THEN [acc EXCEPT !.col.Name = defs[2]] ELSE acc
                  ELSE [acc EXCEPT !.col.Raw = defs[1]]
    ELSE acc

RECURSIVE ParseComponentsFirstWins(_, _)
ParseComponentsFirstWins(acc, components) ==
    IF components = <<>> THEN acc
    ELSE ParseComponent(ParseComponentsFirstWins(acc, Tail(components)), Head(components))
RECURSIVE ParseComponents(_, _)
ParseComponents(acc, components) ==
    IF components = <<>> THEN acc
    ELSE ParseComponents(ParseComponent(acc, Head(components)), Tail(components))

\* part_005:131-157; the result holds the returned skipColumn and the column as modified.
parseSQLTagNeverSkips(tag, columnDesc) ==
    [ParseComponents([skip |-> FALSE, col |-> columnDesc], Split(tag, ",")) EXCEPT !.skip = FALSE]
parseSQLTag(tag, columnDesc) ==
    ParseComponents([skip |-> FALSE, col |-> columnDesc], Split(tag, ","))

\* The state the scan function works on: tableDesc.Columns, tableDesc.ColumnMap
\* (logical name -> index of the column it points to), the local primaryColumn
\* (index, 0 for nil) and the error that ended the scan.
EmptyScan == [Columns |-> <<>>, ColumnMap |-> <<>>, primaryColumn |-> 0, err |-> "nil"]

MapPutKeepsFirst(m, key, val) ==
    IF \E k \in 1..Len(m) : m[k][1] = key THEN m ELSE Append(m, <<key, val>>)
MapPut(m, key, val) ==
    IF \E k \in 1..Len(m) : m[k][1] = key
    THEN [k \in 1..Len(m) |-> IF m[k][1] = key THEN <<key, val>> ELSE m[k]]
    ELSE Append(m, <<key, val>>)
MapHas(m, key) == \E k \in 1..Len(m) : m[k][1] = key
MapGet(m, key) == m[CHOOSE k \in 1..Len(m) : m[k][1] = key][2]

\* part_005:212-215
UnmappableAccepted(col) == FALSE
Unmappable(col) == col.Type = <<>> /\ ~col.OverrideType

\* The scan function, part_005:183-226.
VisitField(acc, f) ==
    IF f.anonymous THEN acc
    ELSE
    LET fieldTag1 == f.db
        fieldTag2 == f.sql
        c0 == NewColumn(f)
        skip1 == fieldTag1 # <<>> /\ fieldTag1 = <<"-">>
        c1 == IF fieldTag1 # <<>> /\ fieldTag1 # <<"-">> THEN [c0 EXCEPT !.Name = fieldTag1] ELSE c0
        parsed == IF fieldTag2 # <<>> THEN parseSQLTag(fieldTag2, c1) ELSE [skip |-> FALSE, col |-> c1]
        \* skipColumn || parseSQLTag(...): the tag is not parsed once db:"-" has skipped the field
        skipColumn == skip1 \/ parsed.skip
        columnDesc == IF skip1 THEN c1 ELSE parsed.col
    IN  IF skipColumn THEN acc
        ELSE IF Unmappable(columnDesc) THEN [acc EXCEPT !.err = "unmappable"]
        ELSE [Columns |-> Append(acc.Columns, columnDesc),
              ColumnMap |-> MapPut(acc.ColumnMap, columnDesc.ActualName, Len(acc.Columns) + 1),
              primaryColumn |-> IF columnDesc.IsPrimary THEN Len(acc.Columns) + 1 ELSE acc.primaryColumn,
              err |-> "nil"]

\* fieldDescriptorImp.StructDescriptor, structural.go:148-174
IsStructOrPtrToStruct(t) == t.kind = "Struct" \/ (t.kind = "Ptr" /\ t.elem = "Struct")

\* structDescriptorImp.ScanFields, structural.go:234-273, folding the scan function
\* over the fields from index i on.
RECURSIVE ScanFieldsEmbeddedLast(_, _, _, _, _)
ScanFieldsEmbeddedLast(fields, exportable, embedded, i, acc) ==
    IF i > 2 * Len(fields) \/ acc.err # "nil" THEN acc
    ELSE LET f == fields[((i - 1) % Len(fields)) + 1]
             next == IF ~exportable \/ IsExportable(f)
                     THEN IF embedded /\ f.anonymous
                          THEN IF i <= Len(fields) THEN acc
                               ELSE IF IsStructOrPtrToStruct(f.type)
                               THEN ScanFieldsEmbeddedLast(f.sub, exportable, embedded, 1, acc)
                               ELSE [acc EXCEPT !.err = "notstruct"]
                          ELSE IF i <= Len(fields) THEN VisitField(acc, f) ELSE acc
                     ELSE acc
         IN  ScanFieldsEmbeddedLast(fields, exportable, embedded, i + 1, next)
RECURSIVE ScanFields(_, _, _, _, _)
ScanFields(fields, exportable, embedded, i, acc) ==
    IF i > Len(fields) \/ acc.err # "nil" THEN acc
    ELSE LET f == fields[i]
             next == IF ~exportable \/ IsExportable(f)
                     THEN IF embedded /\ f.anonymous
                          THEN IF IsStructOrPtrToStruct(f.type)
                               THEN ScanFields(f.sub, exportable, embedded, 1, acc)
                               ELSE [acc EXCEPT !.err = "notstruct"]
                          ELSE VisitField(acc, f)
                     ELSE acc
         IN  ScanFields(fields, exportable, embedded, i + 1, next)

\* NewStructDescriptor, structural.go:281-315: ok for a struct or a pointer to a struct.
NewStructDescriptorAnyPtr(obj) == obj.kind \in {"Struct", "Ptr"}
NewStructDescriptorOk(obj) == obj.kind = "Struct" \/ (obj.kind = "Ptr" /\ obj.elem = "Struct")

\* part_005:228-230.  The local primaryColumn is only tested here: an explicitly
\* marked column is never stored in tableDesc.PrimaryColumn.
FallbackLastColumn(scan) ==
    IF scan.primaryColumn = 0 /\ Len(scan.Columns) > 0 THEN Len(scan.Columns) ELSE 0
PrimaryColumnOf(scan) ==
    IF scan.primaryColumn = 0 /\ Len(scan.Columns) > 0 THEN 1 ELSE 0

NilDescriptor == [Columns |-> <<>>, ColumnMap |-> <<>>, PrimaryColumn |-> 0]

\* part_005:169-233.  Returns the descriptor (nil: FALSE) and the error.
StructToTableDescriptor(obj) ==
    IF ~NewStructDescriptorOk(obj)
    THEN [nil |-> TRUE, desc |-> NilDescriptor, err |-> "nodescriptor"]
    ELSE LET scan == ScanFields(obj.fields, TRUE, TRUE, 1, EmptyScan)
         IN  [nil |-> FALSE,
              desc |-> [Columns |-> scan.Columns, ColumnMap |-> scan.ColumnMap,
                        PrimaryColumn |-> PrimaryColumnOf(scan)],
              err |-> scan.err]

----------------------------------------------------------------------------
(* Table, src/sql/model/table.go *)

\* Values of the variables before anything has been built or called.
NoTemplate == [kind |-> "unset", elem |-> "", fields |-> <<>>]
NoTable == [nil |-> TRUE, err |-> "nil", Engine |-> <<>>, CharSet |-> <<>>, Name |-> <<>>,
            KeysAndIndices |-> <<>>, Descriptor |-> NilDescriptor, Fields |-> <<>>]
NoOut == [op |-> "none", n |-> 0, stmt |-> <<>>, args |-> <<>>, err |-> "nil"]

\* NewTable, table.go:36-52
NewTable(name, template) ==
    LET r == StructToTableDescriptor(template)
    IN  IF r.err # "nil"
        THEN [nil |-> TRUE, err |-> r.err, Engine |-> <<>>, CharSet |-> <<>>, Name |-> <<>>,
              KeysAndIndices |-> <<>>, Descriptor |-> NilDescriptor, Fields |-> <<>>]
        ELSE [nil |-> FALSE, err |-> "nil", Engine |-> <<"InnoDB">>, CharSet |-> <<"utf8mb4">>,
              Name |-> name, KeysAndIndices |-> <<>>, Descriptor |-> r.desc,
              Fields |-> template.fields]

\* ColumnDescriptor.String, part_005:48-59
ColumnString(column) ==
    IF column.OverrideType THEN <<BackQuote>> \o column.Name \o <<BackQuote, " ">> \o column.Raw
    ELSE IF column.Raw = <<>> THEN <<BackQuote>> \o column.Name \o <<BackQuote, " ">> \o column.Type
    ELSE <<BackQuote>> \o column.Name \o <<BackQuote, " ">> \o column.Type \o <<" ">> \o column.Raw

\* table.go:238-249: the entries of the CREATE TABLE statement.
TableEntriesKeysBeforePrimary(table) ==
    LET desc == table.Descriptor
    IN  [k \in 1..Len(desc.Columns) |-> ColumnString(desc.Columns[k])]
        \o table.KeysAndIndices
        \o (IF desc.PrimaryColumn # 0
            THEN <<(<<"PRIMARY KEY (", BackQuote>> \o desc.Columns[desc.PrimaryColumn].Name \o <<BackQuote, ")">>)>>
            ELSE <<>>)
TableEntries(table) ==
    LET desc == table.Descriptor
    IN  [k \in 1..Len(desc.Columns) |-> ColumnString(desc.Columns[k])]
        \o (IF desc.PrimaryColumn # 0
            THEN <<(<<"PRIMARY KEY (", BackQuote>> \o desc.Columns[desc.PrimaryColumn].Name \o <<BackQuote, ")">>)>>
            ELSE <<>>)
        \o table.KeysAndIndices

\* table.go:251-258: each entry on a line of its own, all but the last followed by a comma.
RECURSIVE EntryLines(_, _)
EntryLines(entries, index) ==
    IF index > Len(entries) THEN <<>>
    ELSE <<(<<"\t">>), entries[index], (IF index # Len(entries) THEN <<",\n">> ELSE <<"\n">>)>>
         \o EntryLines(entries, index + 1)

\* TablerToQuery, table.go:230-263: the pieces written to the buffer, in order.
TablerToQuery(table) ==
    <<(<<"CREATE TABLE IF NOT EXISTS ", BackQuote>>), table.Name, (<<BackQuote, " (\n">>)>>
    \o EntryLines(TableEntries(table), 1)
    \o <<(<<") ENGINE=">>), table.Engine, (<<" DEFAULT CHARSET=">>), table.CharSet, (<<";">>)>>

\* reflect.Value.FieldByName: the field of that name at the shallowest embedding
\* depth, if it is the only one there; <<>> (the zero Value) otherwise.
RECURSIVE PathsAt(_, _)
PathsAt(fields, d) ==
    IF d = 0 THEN {<<fields[k].name>> : k \in 1..Len(fields)}
    ELSE UNION {{<<fields[k].name>> \o q : q \in PathsAt(fields[k].sub, d - 1)} :
                   k \in {j \in 1..Len(fields) : fields[j].anonymous}}
RECURSIVE Depth(_)
Depth(fields) ==
    IF fields = <<>> THEN 0
    ELSE LET ds == {IF fields[k].anonymous THEN 1 + Depth(fields[k].sub) ELSE 1 : k \in 1..Len(fields)}
         IN  CHOOSE d \in ds : \A e \in ds : e <= d
NamedAt(fields, name, d) == {q \in PathsAt(fields, d) : q[Len(q)] = name}
FieldByName(fields, name) ==
    LET ds == {d \in 0..Depth(fields) : NamedAt(fields, name, d) # {}}
    IN  IF ds = {} THEN <<>>
        ELSE LET d == CHOOSE x \in ds : \A y \in ds : x <= y
             IN  IF Cardinality(NamedAt(fields, name, d)) = 1
                 THEN CHOOSE q \in NamedAt(fields, name, d) : TRUE
                 ELSE <<>>

\* The value of object number obj at a field path.
Val(obj, path) == [obj |-> obj, path |-> path]

\* table.go:97 and 134: if column.Auto { continue }
InsertSkipsNothing(column) == FALSE
InsertSkips(column) == column.Auto

\* table.go:96-110: the column list.
RECURSIVE InsertColumns(_, _, _)
InsertColumns(columns, k, addComma) ==
    IF k > Len(columns) THEN <<>>
    ELSE IF InsertSkips(columns[k]) THEN InsertColumns(columns, k + 1, addComma)
    ELSE (IF addComma THEN <<(<<",">>)>> ELSE <<>>) \o <<columns[k].Name>>
         \o InsertColumns(columns, k + 1, TRUE)

\* table.go:133-147: the placeholders of one object.
RECURSIVE InsertPlaceholders(_, _, _)
InsertPlaceholders(columns, k, innerAddComma) ==
    IF k > Len(columns) THEN <<>>
    ELSE IF InsertSkips(columns[k]) THEN InsertPlaceholders(columns, k + 1, innerAddComma)
    ELSE (IF innerAddComma THEN <<(<<",">>)>> ELSE <<>>) \o <<(<<"?">>)>>
         \o InsertPlaceholders(columns, k + 1, TRUE)

\* table.go:145: the values bound for one object.
RECURSIVE InsertValuesOf(_, _, _, _)
InsertValuesOf(fields, columns, obj, k) ==
    IF k > Len(columns) THEN <<>>
    ELSE IF InsertSkips(columns[k]) THEN InsertValuesOf(fields, columns, obj, k + 1)
    ELSE <<Val(obj, FieldByName(fields, columns[k].ActualName))>>
         \o InsertValuesOf(fields, columns, obj, k + 1)

\* table.go:115-150: one parenthesised group per object.
RECURSIVE InsertGroups(_, _, _)
InsertGroups(columns, objs, n) ==
    IF n > Len(objs) THEN <<>>
    ELSE (IF n > 1 THEN <<(<<",">>)>> ELSE <<>>) \o <<(<<"(">>)>>
         \o InsertPlaceholders(columns, 1, FALSE) \o <<(<<")">>)>>
         \o InsertGroups(columns, objs, n + 1)

RECURSIVE InsertValues(_, _, _, _)
InsertValues(fields, columns, objs, n) ==
    IF n > Len(objs) THEN <<>>
    ELSE InsertValuesOf(fields, columns, objs[n], 1) \o InsertValues(fields, columns, objs, n + 1)

\* Table.Insert, table.go:85-153: the statement and the values handed to queryer.Exec.
InsertStatement(table, objs) ==
    <<(<<"INSERT INTO ", BackQuote>>), table.Name, (<<BackQuote, " (">>)>>
    \o InsertColumns(table.Descriptor.Columns, 1, FALSE)
    \o <<(<<") VALUES ">>)>>
    \o InsertGroups(table.Descriptor.Columns, objs, 1)

InsertArgsLastFirst(table, objs) ==
    InsertValues(table.Fields, table.Descriptor.Columns,
                 [k \in 1..Len(objs) |-> objs[Len(objs) + 1 - k]], 1)
InsertArgs(table, objs) == InsertValues(table.Fields, table.Descriptor.Columns, objs, 1)

\* table.go:180-182: if column == desc.PrimaryColumn { continue } (pointer identity;
\* k is the column's index).
UpdateSkipsAuto(desc, k) == k = desc.PrimaryColumn \/ desc.Columns[k].Auto
UpdateSkips(desc, k) == k = desc.PrimaryColumn

\* table.go:179-196: the SET list.
RECURSIVE UpdateColumns(_, _, _)
UpdateColumns(desc, k, addComma) ==
    IF k > Len(desc.Columns) THEN <<>>
    ELSE IF UpdateSkips(desc, k) THEN UpdateColumns(desc, k + 1, addComma)
    ELSE (IF addComma THEN <<(<<",">>)>> ELSE <<>>)
         \o <<(<<BackQuote>> \o desc.Columns[k].Name \o <<BackQuote, "=?">>)>>
         \o UpdateColumns(desc, k + 1, TRUE)

\* table.go:194-195: the values of the SET columns.
RECURSIVE UpdateValues(_, _, _, _)
UpdateValues(fields, desc, obj, k) ==
    IF k > Len(desc.Columns) THEN <<>>
    ELSE IF UpdateSkips(desc, k) THEN UpdateValues(fields, desc, obj, k + 1)
    ELSE <<Val(obj, FieldByName(fields, desc.Columns[k].ActualName))>>
         \o UpdateValues(fields, desc, obj, k + 1)

\* table.go:198: WHERE on the primary column.  Only evaluated with PrimaryColumn set.
WherePrimary(desc) ==
    <<" WHERE ", BackQuote>> \o desc.Columns[desc.PrimaryColumn].Name \o <<BackQuote, "=?">>

\* table.go:200-201: the primary key value.
PrimaryValue(fields, desc, obj) ==
    <<Val(obj, FieldByName(fields, desc.Columns[desc.PrimaryColumn].ActualName))>>

\* Table.Update, table.go:164-206: the statement and the values handed to queryer.Exec.
UpdateStatement(table) ==
    <<(<<"UPDATE ">> \o table.Name \o <<" SET ">>)>>
    \o UpdateColumns(table.Descriptor, 1, FALSE)
    \o <<WherePrimary(table.Descriptor)>>

UpdateArgsPrimaryFirst(table, obj) ==
    PrimaryValue(table.Fields, table.Descriptor, obj)
    \o UpdateValues(table.Fields, table.Descriptor, obj, 1)
UpdateArgs(table, obj) ==
    UpdateValues(table.Fields, table.Descriptor, obj, 1)
    \o PrimaryValue(table.Fields, table.Descriptor, obj)

\* Table.Delete, select.go:375-395: the two pieces written to the buffer and the
\* value handed to queryer.Exec.
DeleteStatement(table) ==
    <<(<<"DELETE FROM ">> \o table.Name \o <<" ">>), WherePrimary(table.Descriptor)>>

DeleteArgsAllColumns(table, obj) == UpdateArgs(table, obj)
DeleteArgs(table, obj) == PrimaryValue(table.Fields, table.Descriptor, obj)

----------------------------------------------------------------------------
(* Select, src/sql/model/select.go *)

\* The leftmost match of \{\{.+?\}\} that starts at i: the index of its last
\* character, 0 if there is none.  The lazy .+? takes at least one character and
\* stops at the first "}}" after it; the texts hold no newline.
MatchEnd(s, i) ==
    IF i + 1 <= Len(s) /\ s[i] = "{" /\ s[i + 1] = "{"
    THEN LET ends == {j \in (i + 3)..(Len(s) - 1) : s[j] = "}" /\ s[j + 1] = "}"}
         IN  IF ends = {} THEN 0
             ELSE (CHOOSE j \in ends : \A x \in ends : j <= x) + 1
    ELSE 0

\* strings.Trim(src, "{{}}"): leading and trailing characters of the cutset removed.
RECURSIVE TrimLeft(_)
TrimLeft(s) == IF s # <<>> /\ Head(s) \in {"{", "}"} THEN TrimLeft(Tail(s)) ELSE s
RECURSIVE TrimRight(_)
TrimRight(s) ==
    IF s # <<>> /\ s[Len(s)] \in {"{", "}"} THEN TrimRight(SubSeq(s, 1, Len(s) - 1)) ELSE s
Trim(s) == TrimRight(TrimLeft(s))

\* templateMap[fieldName]: "" for a name that is not a key.
MapLookup(templateMap, fieldName) ==
    IF MapHas(templateMap, fieldName) THEN MapGet(templateMap, fieldName) ELSE <<>>

\* select.go:42-53: the replacement of one match.
KeepUnresolved(src, templateMap) ==
    LET name == MapLookup(templateMap, Trim(src))
    IN  IF name # <<>> THEN <<BackQuote>> \o name \o <<BackQuote>> ELSE src
ReplaceMatch(src, templateMap) ==
    LET name == MapLookup(templateMap, Trim(src))
    IN  IF name # <<>> THEN <<BackQuote>> \o name \o <<BackQuote>> ELSE <<>>

\* regexp.ReplaceAllFunc: the matches, leftmost first and not overlapping, replaced.
RECURSIVE ReplaceAllFrom(_, _, _)
ReplaceAllFrom(s, i, templateMap) ==
    IF i > Len(s) THEN <<>>
    ELSE LET e == MatchEnd(s, i)
         IN  IF e = 0 THEN <<s[i]>> \o ReplaceAllFrom(s, i + 1, templateMap)
             ELSE ReplaceMatch(SubSeq(s, i, e), templateMap) \o ReplaceAllFrom(s, e + 1, templateMap)

\* replaceStructFieldsWithSQLFields, select.go:39-54
replaceStructFieldsWithSQLFields(template, templateMap) == ReplaceAllFrom(template, 1, templateMap)

\* Table.TemplateMap, table.go:219-228: logical name -> physical name, from ColumnMap.
TemplateMap(table) ==
    [k \in 1..Len(table.Descriptor.ColumnMap) |->
        <<table.Descriptor.ColumnMap[k][1],
          table.Descriptor.Columns[table.Descriptor.ColumnMap[k][2]].Name>>]

\* A Select: its From is the Table or another Select; LimitResults is <<>> for nil.
FromTable == [kind |-> "Table"]
FromSelect(inner) == [kind |-> "Select", sel |-> inner]
NoSelect == [nil |-> TRUE]
NewSelectOf(fields, from) ==
    [nil |-> FALSE, Fields |-> fields, From |-> from, Alias |-> <<>>, WhereCondition |-> <<>>,
     GroupByExpression |-> <<>>, OrderByExpression |-> <<>>, LimitResults |-> <<>>]

\* fmt's %v of an int64: decimal digits, with a sign for a negative number.
RECURSIVE Digits(_)
Digits(n) == IF n < 10 THEN <<DigitSeq[n + 1]>> ELSE Digits(n \div 10) \o <<DigitSeq[(n % 10) + 1]>>
FormatInt(n) == IF n < 0 THEN <<"-">> \o Digits(0 - n) ELSE Digits(n)

\* Table.FromStatement, table.go:214-216
TableFromStatement(table) == <<BackQuote>> \o table.Name \o <<BackQuote>>

\* Select.Query, select.go:113-140, and Select.FromStatement, select.go:89-92.
QueryClausesReversed(s, table) ==
    <<"SELECT ">> \o s.Fields \o <<" FROM ">> \o TableFromStatement(table)
    \o (IF s.LimitResults # <<>>
        THEN <<" LIMIT ">> \o FormatInt(s.LimitResults[1].Offset) \o <<", ">>
             \o FormatInt(s.LimitResults[1].RowCount)
        ELSE <<>>)
    \o (IF s.OrderByExpression # <<>> THEN <<" ORDER BY ">> \o s.OrderByExpression ELSE <<>>)
    \o (IF s.GroupByExpression # <<>> THEN <<" GROUP BY ">> \o s.GroupByExpression ELSE <<>>)
    \o (IF s.WhereCondition # <<>> THEN <<" WHERE ">> \o s.WhereCondition ELSE <<>>)
    \o (IF s.Alias # <<>> THEN <<" AS ">> \o s.Alias ELSE <<>>)
RECURSIVE Query(_, _)
Query(s, table) ==
    <<"SELECT ">> \o s.Fields \o <<" FROM ">>
    \o (IF s.From.kind = "Table" THEN TableFromStatement(table)
        ELSE <<"(">> \o Query(s.From.sel, table) \o <<")">>)
    \o (IF s.Alias # <<>> THEN <<" AS ">> \o s.Alias ELSE <<>>)
    \o (IF s.WhereCondition # <<>> THEN <<" WHERE ">> \o s.WhereCondition ELSE <<>>)
    \o (IF s.GroupByExpression # <<>> THEN <<" GROUP BY ">> \o s.GroupByExpression ELSE <<>>)
    \o (IF s.OrderByExpression # <<>> THEN <<" ORDER BY ">> \o s.OrderByExpression ELSE <<>>)
    \o (IF s.LimitResults # <<>>
        THEN <<" LIMIT ">> \o FormatInt(s.LimitResults[1].Offset) \o <<", ">>
             \o FormatInt(s.LimitResults[1].RowCount)
        ELSE <<>>)

----------------------------------------------------------------------------
(* Inputs of Migrate *)

Targets == {V1_0, V1_2, V2_0, V9, V10}
GroupVersions == {V1_1, V1_2, V10}

\* A Version: its version string and its migrations (numbered 1..migrations).
Groups == [version : GroupVersions, migrations : 0..MaxMigs]

BSeq(S, n) == UNION {[1..k -> S] : k \in 0..n}

\* Errors the queryer (or a custom migration function) can return.
QueryerErrors == {"e1", "e2"}
Outcomes == {"nil"} \cup QueryerErrors

NoInfo == [id |-> 0, version |-> <<>>, date |-> 0]
EmptyStore == [exists |-> FALSE, rows |-> <<>>]

Entry(op, g, m, e) == [op |-> op, g |-> g, m |-> m, err |-> e]

----------------------------------------------------------------------------
(* Migrate, src/sql/migration/migration.go *)

\* info := &Info{ID: 1, Version: "0", MigrationDate: types.NewDateTime()}
FreshInfo(now) == [id |-> 1, version |-> V0, date |-> now]

\* Line 137: len(rows) == 0
InsertAlways(rows) == TRUE
NeedsInsert(rows) == Len(rows) = 0

\* Lines 92 and 153: err != nil
MigrationNeverFails(e) == FALSE
MigrationFailed(e) == e # "nil"

\* The three-way decision of lines 147 and 167.
CompareEqualMigrates(current, stored) ==
    IF StrLessEq(stored, current) THEN "migrate" ELSE "refuse"
CompareNeverRefuses(current, stored) ==
    IF StrLess(stored, current) THEN "migrate" ELSE "noop"
CompareVersions(current, stored) ==
    IF StrLess(stored, current) THEN "migrate"
    ELSE IF StrLess(current, stored) THEN "refuse"
    ELSE "noop"

\* Line 150: info.Version < migrationVersion.version && migrationVersion.version <= currentVersion
InRangeFromStored(stored, v, current) == StrLessEq(stored, v) /\ StrLessEq(v, current)
InRange(stored, v, current) == StrLess(stored, v) /\ StrLessEq(v, current)

\* The next migration the two nested loops (lines 148, 90) run, starting the
\* search at migration m of group g; <<0, 0>> when the loops are exhausted.
NextPosResuming(vs, stored, current, g, m) ==
    LET done == {prev.invoked[k] : k \in 1..(Len(prev.invoked) - 1)}
        due == {p \in (1..Len(vs)) \X (1..MaxMigs) :
                   /\ p[2] <= vs[p[1]].migrations
                   /\ InRange(stored, vs[p[1]].version, current)
                   /\ p[1] > g \/ (p[1] = g /\ p[2] >= m)
                   /\ p \notin done}
    IN  IF due = {} THEN <<0, 0>>
        ELSE CHOOSE p \in due : \A q \in due : p[1] < q[1] \/ (p[1] = q[1] /\ p[2] <= q[2])
RECURSIVE NextPos(_, _, _, _, _)
NextPos(vs, stored, current, g, m) ==
    IF g > Len(vs) THEN <<0, 0>>
    ELSE IF InRange(stored, vs[g].version, current) /\ m <= vs[g].migrations
         THEN <<g, m>>
         ELSE NextPos(vs, stored, current, g + 1, 1)

\* Lines 91-94 and 152-155: a migration's error ends the run and is returned as it is.
ReturnedError(e) == e

\* What the database does with UPDATE ... WHERE `id`=? .
UpdateRowsKeepsVersion(rows, i) ==
    [k \in 1..Len(rows) |-> IF rows[k].id = i.id THEN [rows[k] EXCEPT !.date = i.date] ELSE rows[k]]
UpdateRows(rows, i) ==
    [k \in 1..Len(rows) |->
        IF rows[k].id = i.id THEN [rows[k] EXCEPT !.version = i.version, !.date = i.date]
        ELSE rows[k]]

\* Entry of Migrate(queryer, currentVersion, versions), line 121.
Call(t, vs) ==
    /\ runs' = runs + 1
    /\ target' = t
    /\ versions' = vs
    /\ info' = NoInfo
    /\ gi' = 0
    /\ mi' = 0
    /\ log' = <<>>
    /\ result' = "none"
    /\ pre' = store
    /\ pc' = "create"
    /\ UNCHANGED store
    /\ UNCHANGED notMig

Return(e) ==
    /\ result' = e
    /\ pc' = "done"

\* Line 123: queryer.Exec(_migrationTable.TableQuery())
ExecCreate(e) ==
    /\ pc = "create"
    /\ log' = Append(log, Entry("CREATE", 0, 0, e))
    /\ IF e # "nil"
       THEN /\ Return(ReturnedError(e))
            /\ UNCHANGED store
       ELSE /\ store' = [store EXCEPT !.exists = TRUE]
            /\ pc' = "select"
            /\ UNCHANGED result
    /\ UNCHANGED <<runs, target, versions, info, gi, mi, pre>>
    /\ UNCHANGED notMig

\* Lines 129-144 up to the insert: _migrationTable.Select("*").Run(queryer)
RunSelect(e) ==
    /\ pc = "select"
    /\ log' = Append(log, Entry("SELECT", 0, 0, e))
    /\ IF e # "nil"
       THEN /\ Return(ReturnedError(e))
            /\ UNCHANGED info
       ELSE /\ UNCHANGED result
            /\ IF NeedsInsert(store.rows)
               THEN info' = FreshInfo(runs) /\ pc' = "insert"
               ELSE info' = store.rows[1] /\ pc' = "compare"
    /\ UNCHANGED <<store, runs, target, versions, gi, mi, pre>>
    /\ UNCHANGED notMig

\* Line 138: _migrationTable.Insert([]interface{}{info}, queryer)
ExecInsert(e) ==
    /\ pc = "insert"
    /\ log' = Append(log, Entry("INSERT", 0, 0, e))
    /\ IF e # "nil"
       THEN /\ Return(ReturnedError(e))
            /\ UNCHANGED store
       ELSE /\ store' = [store EXCEPT !.rows = Append(@, info)]
            /\ pc' = "compare"
            /\ UNCHANGED result
    /\ UNCHANGED <<runs, target, versions, info, gi, mi, pre>>
    /\ UNCHANGED notMig

\* Lines 147, 167-172: the comparison, and the search for the first migration to run.
Compare ==
    /\ pc = "compare"
    /\ LET d == CompareVersions(target, info.version)
           p == NextPos(versions, info.version, target, 1, 1)
       IN  CASE d = "migrate" ->
                  /\ gi' = p[1]
                  /\ mi' = p[2]
                  /\ pc' = IF p = <<0, 0>> THEN "update" ELSE "migrate"
                  /\ UNCHANGED result
             [] d = "refuse" ->
                  /\ Return("order")
                  /\ UNCHANGED <<gi, mi>>
             [] OTHER ->
                  /\ Return("nil")
                  /\ UNCHANGED <<gi, mi>>
    /\ UNCHANGED <<store, runs, target, versions, info, log, pre>>
    /\ UNCHANGED notMig

\* Lines 89-98, 148-157: run migration mi of group gi.
RunMigration(e) ==
    /\ pc = "migrate"
    /\ log' = Append(log, Entry("MIG", gi, mi, e))
    /\ IF MigrationFailed(e)
       THEN /\ Return(ReturnedError(e))
            /\ UNCHANGED <<gi, mi>>
       ELSE LET p == NextPos(versions, info.version, target, gi, mi + 1)
            IN  /\ gi' = p[1]
                /\ mi' = p[2]
                /\ pc' = IF p = <<0, 0>> THEN "update" ELSE "migrate"
                /\ UNCHANGED result
    /\ UNCHANGED <<store, runs, target, versions, info, pre>>
    /\ UNCHANGED notMig

\* Lines 160-166: set the version and the date, then _migrationTable.Update(info, queryer)
ExecUpdate(e) ==
    /\ pc = "update"
    /\ LET i == [info EXCEPT !.version = target, !.date = runs]
       IN  /\ info' = i
           /\ log' = Append(log, Entry("UPDATE", 0, 0, e))
           /\ IF e # "nil"
              THEN /\ Return(ReturnedError(e))
                   /\ UNCHANGED store
              ELSE /\ store' = [store EXCEPT !.rows = UpdateRows(@, i)]
                   /\ Return("nil")
    /\ UNCHANGED <<runs, target, versions, gi, mi, pre>>
    /\ UNCHANGED notMig

\* The caller has the result; the finished call's frame is gone.
Finish ==
    /\ pc = "done"
    /\ pc' = "idle"
    /\ target' = <<>>
    /\ versions' = <<>>
    /\ info' = NoInfo
    /\ gi' = 0
    /\ mi' = 0
    /\ log' = <<>>
    /\ result' = "none"
    /\ pre' = EmptyStore
    /\ UNCHANGED <<store, runs>>
    /\ UNCHANGED notMig

NoFailedRun == [invoked |-> <<>>, stored |-> <<>>]
MigIdle ==
    /\ prev = NoFailedRun
    /\ store = EmptyStore
    /\ runs = 0
    /\ pc = "idle"
    /\ target = <<>>
    /\ versions = <<>>
    /\ info = NoInfo
    /\ gi = 0
    /\ mi = 0
    /\ log = <<>>
    /\ result = "none"
    /\ pre = EmptyStore

\* No Table is under construction while the migration runner is observed.
TableIdle ==
    /\ record = NoTemplate
    /\ tpc = "start"
    /\ tbl = NoTable
    /\ ddl = <<>>
    /\ out = NoOut
    /\ calls = <<>>

\* No Select is under construction.
SelIdle ==
    /\ tmpl = <<>>
    /\ sel = NoSelect
    /\ trace = <<>>

\* No Transactional call was made, and nothing was written.
NoTx == [pc |-> "idle", n |-> 0, begun |-> FALSE, pending |-> <<>>, events |-> <<>>,
         ret |-> <<>>, result |-> <<>>]
EmptyDB == [rows |-> <<>>, open |-> 0]
TxIdle ==
    /\ tx = NoTx
    /\ database = EmptyDB

\* No caller shares the Table.
ThrIdle == thr = <<>>

\* No Select was made.
HeapIdle == heap = <<>>

Init == MigIdle /\ TableIdle /\ SelIdle /\ TxIdle /\ ThrIdle /\ HeapIdle

VersionLists == BSeq(Groups, MaxGroups)

\* A caller starts a run; runs do not overlap.
Migrate ==
    /\ pc = "idle"
    /\ runs < MaxRuns
    /\ \E t \in Targets, vs \in VersionLists : Call(t, vs)

Next ==
    \/ Migrate
    \/ \E e \in Outcomes : ExecCreate(e)
    \/ \E e \in Outcomes : RunSelect(e)
    \/ \E e \in Outcomes : ExecInsert(e)
    \/ Compare
    \/ \E e \in Outcomes : RunMigration(e)
    \/ \E e \in Outcomes : ExecUpdate(e)
    \/ Finish

Spec == Init /\ [][Next]_vars

\* The migrations a run has invoked, in order: <<group, migration>> each.
Invoked(l) ==
    LET migs == SelectSeq(l, LAMBDA x : x.op = "MIG")
    IN  [k \in 1..Len(migs) |-> <<migs[k].g, migs[k].m>>]

\* The caller has the error of a migration from Migrate and calls it again with
\* the same target and the same versions, keeping which migrations the failed run
\* had invoked (the last one is the one that failed) and the version it had read.
Retry ==
    /\ pc = "done"
    /\ result # "nil"
    /\ log # <<>> /\ log[Len(log)].op = "MIG"
    /\ runs < MaxRuns
    /\ prev' = [invoked |-> Invoked(log), stored |-> info.version]
    /\ runs' = runs + 1
    /\ info' = NoInfo
    /\ gi' = 0
    /\ mi' = 0
    /\ log' = <<>>
    /\ result' = "none"
    /\ pre' = store
    /\ pc' = "create"
    /\ UNCHANGED <<store, target, versions>>
    /\ UNCHANGED notRun

RetryNext ==
    \/ Migrate
    \/ \E e \in Outcomes : ExecCreate(e)
    \/ \E e \in Outcomes : RunSelect(e)
    \/ \E e \in Outcomes : ExecInsert(e)
    \/ Compare
    \/ \E e \in Outcomes : RunMigration(e)
    \/ \E e \in Outcomes : ExecUpdate(e)
    \/ Retry

RetrySpec == Init /\ [][RetryNext]_vars

----------------------------------------------------------------------------
(* Record types and Table operations under observation *)

nID == <<"I", "D">>
nName == <<"N", "a", "m", "e">>
nUserID == <<"U", "s", "e", "r", "I", "D">>
nVersion == <<"V", "e", "r", "s", "i", "o", "n">>
nSecret == <<"S", "e", "c", "r", "e", "t">>
nMeta == <<"M", "e", "t", "a">>
nCache == <<"C", "a", "c", "h", "e">>
nHidden == <<"h", "i", "d", "d", "e", "n">>
nModel == <<"M", "o", "d", "e", "l">>
nCreatedAt == <<"C", "r", "e", "a", "t", "e", "d", "A", "t">>
nAlias == <<"A", "l", "i", "a", "s">>
nProfile == <<"P", "r", "o", "f", "i", "l", "e">>
nAge == <<"A", "g", "e">>
nNote == <<"N", "o", "t", "e">>
nAudit == <<"A", "u", "d", "i", "t">>
nExtra == <<"E", "x", "t", "r", "a">>

\* Column names written in db tags.
cID == <<"i", "d">>
cVersion == <<"v", "e", "r", "s", "i", "o", "n">>
cCreatedAt == <<"c", "r", "e", "a", "t", "e", "d", "_", "a", "t">>

\* Model.ID and Model.CreatedAt, part_005:20-25
fID == Field(nID, Type("Uint64"), cID, <<"auto", ",", "NOT NULL AUTO_INCREMENT">>)
fCreatedAt == Field(nCreatedAt, Named("Struct", SQLPkg, "DateTime"), cCreatedAt,
                    <<"auto", ",", "DEFAULT CURRENT_TIMESTAMP">>)
fModel == Embedded(nModel, Type("Struct"), <<fID, fCreatedAt>>)
\* Info.Version, migration.go:19
fVersion == Field(nVersion, Type("String"), cVersion, <<"override", ",", "VARCHAR(64)">>)
fName == Field(nName, Type("String"), <<>>, <<>>)
fAge == Field(nAge, Type("Uint8"), <<>>, <<"DEFAULT 0">>)
fProfile == Embedded(nProfile, Type("Struct"), <<fName, fAge>>)
fUserID == Field(nUserID, Type("Int64"), <<>>, <<"primary">>)
fSecret == Field(nSecret, Type("String"), <<"-">>, <<"primary">>)
fMeta == Field(nMeta, Type("Map"), <<>>, <<>>)
fCache == Field(nCache, Type("Map"), <<>>, <<"-">>)
fHidden == Field(nHidden, Type("Int"), <<>>, <<"auto">>)
fAlias == Field(nAlias, SliceOf("Uint8"), cID, <<"NOT NULL">>)

\* A record embedded between two fields of an embedded record.
fNote == Field(nNote, Type("Bool"), <<>>, <<>>)
fAudit == Embedded(nAudit, Type("Struct"), <<fVersion, fModel, fNote>>)
\* A field of a kind without SQL type whose type the tag overrides.
fExtra == Field(nExtra, Type("Map"), <<>>, <<"override", ",", "JSON">>)

FieldPool ==
    {fID, fModel, fProfile, fVersion, fName, fUserID, fSecret, fMeta, fCache, fHidden, fAlias,
     fAudit, fExtra}

\* Go rejects a struct type that declares a field name twice.
StructTypes ==
    {fs \in BSeq(FieldPool, MaxFields) :
        \A i, j \in 1..Len(fs) : i # j => fs[i].name # fs[j].name}

\* Values that are no struct and no pointer to a struct: the nil interface (whose
\* reflect.TypeOf is nil, kind Invalid), an int, a pointer to an int, a map, a
\* slice of structs.
NonStructRoots ==
    {[kind |-> "Invalid", elem |-> "", fields |-> <<>>],
     [kind |-> "Int", elem |-> "", fields |-> <<>>],
     [kind |-> "Ptr", elem |-> "Int", fields |-> <<>>],
     [kind |-> "Map", elem |-> "", fields |-> <<>>],
     [kind |-> "Slice", elem |-> "Struct", fields |-> <<>>]}

Templates ==
    {[kind |-> "Struct", elem |-> "", fields |-> fs] : fs \in StructTypes}
    \cup {[kind |-> "Ptr", elem |-> "Struct", fields |-> fs] :
             fs \in {t \in StructTypes : Len(t) < MaxFields}}
    \cup NonStructRoots

TableName == <<"u", "s", "e", "r", "s">>

\* table, err := model.NewTable(name, template)
BuildTable ==
    /\ tpc = "start"
    /\ record # NoTemplate
    /\ tpc' = "built"
    /\ tbl' = NewTable(TableName, record)
    /\ UNCHANGED <<record, ddl, out, calls>>
    /\ UNCHANGED notTab

\* table.TableQuery(), table.go:80-82
TableQuery ==
    /\ tpc = "built"
    /\ ~tbl.nil
    /\ ddl' = TablerToQuery(tbl)
    /\ UNCHANGED <<record, tpc, tbl, out, calls>>
    /\ UNCHANGED notTab

\* table.Update(obj, queryer) with object number 1, table.go:164-206.  With no
\* primary column desc.PrimaryColumn.Name at line 198 dereferences nil and panics
\* before anything is executed, as does Interface() on the zero Value.
UpdateCall(stmt, args, e) ==
    IF \E k \in 1..Len(args) : args[k].path = <<>>
    THEN /\ out' = [op |-> "Update", n |-> 1, stmt |-> <<>>, args |-> <<>>, err |-> "panic"]
         /\ calls' = <<>>
    ELSE /\ out' = [op |-> "Update", n |-> 1, stmt |-> stmt, args |-> args, err |-> e]
         /\ calls' = <<[stmt |-> stmt, args |-> args, err |-> e]>>

Update ==
    /\ tpc = "built"
    /\ ~tbl.nil
    /\ IF tbl.Descriptor.PrimaryColumn = 0
       THEN /\ out' = [op |-> "Update", n |-> 1, stmt |-> <<>>, args |-> <<>>, err |-> "panic"]
            /\ calls' = <<>>
       ELSE LET stmt == UpdateStatement(tbl)
                args == UpdateArgs(tbl, 1)
            IN  \E e \in Outcomes : UpdateCall(stmt, args, e)
    /\ UNCHANGED <<record, tpc, tbl, ddl>>
    /\ UNCHANGED notTab

\* table.Delete(obj, queryer) with object number obj, select.go:375-395.  With no
\* primary column desc.PrimaryColumn.Name at line 389 dereferences nil and panics.
DeleteCall(obj, stmt, args, e) ==
    IF \E k \in 1..Len(args) : args[k].path = <<>>
    THEN /\ out' = [op |-> "Delete", n |-> obj, stmt |-> <<>>, args |-> <<>>, err |-> "panic"]
         /\ calls' = <<>>
    ELSE /\ out' = [op |-> "Delete", n |-> obj, stmt |-> stmt, args |-> args, err |-> e]
         /\ calls' = <<[stmt |-> stmt, args |-> args, err |-> e]>>

Delete ==
    /\ tpc = "built"
    /\ ~tbl.nil
    /\ \E obj \in 1..MaxRecords :
          IF tbl.Descriptor.PrimaryColumn = 0
          THEN /\ out' = [op |-> "Delete", n |-> obj, stmt |-> <<>>, args |-> <<>>, err |-> "panic"]
               /\ calls' = <<>>
          ELSE LET stmt == DeleteStatement(tbl)
                   args == DeleteArgs(tbl, obj)
               IN  \E e \in Outcomes : DeleteCall(obj, stmt, args, e)
    /\ UNCHANGED <<record, tpc, tbl, ddl>>
    /\ UNCHANGED notTab

\* table.Insert(objs, queryer) with n objects of the table's record type, table.go:85-153;
\* e is what queryer.Exec returns.  Interface() on the zero Value that FieldByName
\* returns for an ambiguous name panics before anything is executed.
InsertCall(n, stmt, args, e) ==
    IF \E k \in 1..Len(args) : args[k].path = <<>>
    THEN /\ out' = [op |-> "Insert", n |-> n, stmt |-> <<>>, args |-> <<>>, err |-> "panic"]
         /\ calls' = <<>>
    ELSE /\ out' = [op |-> "Insert", n |-> n, stmt |-> stmt, args |-> args, err |-> e]
         /\ calls' = <<[stmt |-> stmt, args |-> args, err |-> e]>>

Insert ==
    /\ tpc = "built"
    /\ ~tbl.nil
    /\ \E n \in 0..MaxRecords :
          LET objs == [k \in 1..n |-> k]
              stmt == InsertStatement(tbl, objs)
              args == InsertArgs(tbl, objs)
          IN  \E e \in Outcomes : InsertCall(n, stmt, args, e)
    /\ UNCHANGED <<record, tpc, tbl, ddl>>
    /\ UNCHANGED notTab

TableInit ==
    /\ MigIdle
    /\ SelIdle
    /\ TxIdle
    /\ ThrIdle
    /\ HeapIdle
    /\ record \in Templates
    /\ tpc = "start"
    /\ tbl = NoTable
    /\ ddl = <<>>
    /\ out = NoOut
    /\ calls = <<>>

TableNext ==
    \/ BuildTable
    \/ TableQuery
    \/ Insert
    \/ Update
    \/ Delete

TableSpec == TableInit /\ [][TableNext]_vars

----------------------------------------------------------------------------
(* Templates and Select builder calls under observation *)

nMissing == <<"M", "i", "s", "s", "i", "n", "g">>

\* A template text is written as the pieces it is made of: plain text, a reference
\* {{Name}}, or a piece that is neither (a lone brace, an empty reference).
Text(t) == [kind |-> "text", val |-> t]
Ref(name) == [kind |-> "ref", val |-> name]
Raw(t) == [kind |-> "raw", val |-> t]

PieceText(p) == IF p.kind = "ref" THEN <<"{", "{">> \o p.val \o <<"}", "}">> ELSE p.val
RECURSIVE TemplateText(_)
TemplateText(pieces) ==
    IF pieces = <<>> THEN <<>> ELSE PieceText(Head(pieces)) \o TemplateText(Tail(pieces))

TemplatePieces ==
    {Ref(nID), Ref(nUserID), Ref(nSecret), Text(<<" = ? ">>),
     Raw(<<"{">>), Raw(<<"}">>), Raw(<<"{", "{", "}", "}">>)}

\* where("{{ID}} = ? AND {{Missing}} = ?")
ExampleTemplate == <<Ref(nID), Text(<<" = ? AND ">>), Ref(nMissing), Text(<<" = ?">>)>>

TemplatePool == BSeq(TemplatePieces, MaxPieces) \cup {ExampleTemplate}

\* The record types of the tables the templates are resolved against.
SourceRecords ==
    {[kind |-> "Struct", elem |-> "", fields |-> <<fModel, fProfile>>],
     [kind |-> "Ptr", elem |-> "Struct", fields |-> <<fSecret, fUserID>>]}

\* table.ResolveQueryTemplates(query), select.go:246-248
ResolveQueryTemplates(query) ==
    /\ tpc = "built"
    /\ ~tbl.nil
    /\ out' = [op |-> "ResolveQueryTemplates", n |-> 0,
               stmt |-> <<replaceStructFieldsWithSQLFields(query, TemplateMap(tbl))>>,
               args |-> <<>>, err |-> "nil"]

\* table.Select(fields), table.go:156-161: a new Select on the table.
TableSelect(fields) ==
    /\ tpc = "built"
    /\ ~tbl.nil
    /\ sel' = NewSelectOf(replaceStructFieldsWithSQLFields(fields, TemplateMap(tbl)), FromTable)

\* sel.As(alias), select.go:56-60.  sel.From.TemplateMap() is the table's map.
As(alias) ==
    /\ ~sel.nil
    /\ sel' = [sel EXCEPT !.Alias = replaceStructFieldsWithSQLFields(alias, TemplateMap(tbl))]

\* sel.Where(cond), select.go:62-66
WhereKeepsText(cond) ==
    /\ ~sel.nil
    /\ sel' = [sel EXCEPT !.WhereCondition = cond]
Where(cond) ==
    /\ ~sel.nil
    /\ sel' = [sel EXCEPT !.WhereCondition =
                               replaceStructFieldsWithSQLFields(cond, TemplateMap(tbl))]

\* sel.GroupBy(cond), select.go:68-72
GroupBy(cond) ==
    /\ ~sel.nil
    /\ sel' = [sel EXCEPT !.GroupByExpression =
                               replaceStructFieldsWithSQLFields(cond, TemplateMap(tbl))]

\* sel.OrderBy(expr), select.go:74-78
OrderBy(expr) ==
    /\ ~sel.nil
    /\ sel' = [sel EXCEPT !.OrderByExpression =
                               replaceStructFieldsWithSQLFields(expr, TemplateMap(tbl))]

\* sel.Limit(offset, rowCount), select.go:80-87
Limit(offset, rowCount) ==
    /\ ~sel.nil
    /\ sel' = [sel EXCEPT !.LimitResults = <<[Offset |-> offset, RowCount |-> rowCount]>>]

\* What a call that returns the Select itself leaves as the last result.
HandleOut == [op |-> "Select", n |-> 0, stmt |-> <<>>, args |-> <<>>, err |-> "nil"]

\* The calls with the template under observation as their argument.
ResolveTemplate ==
    /\ ResolveQueryTemplates(TemplateText(tmpl))
    /\ UNCHANGED <<record, tpc, tbl, selVars>>
    /\ UNCHANGED notSel
SelectTemplate ==
    /\ TableSelect(TemplateText(tmpl))
    /\ trace' = <<>>
    /\ out' = HandleOut
    /\ UNCHANGED <<record, tpc, tbl, tmpl>>
    /\ UNCHANGED notSel
AsTemplate ==
    /\ As(TemplateText(tmpl))
    /\ out' = HandleOut
    /\ UNCHANGED <<record, tpc, tbl, tmpl, trace>>
    /\ UNCHANGED notSel
WhereTemplate ==
    /\ Where(TemplateText(tmpl))
    /\ out' = HandleOut
    /\ UNCHANGED <<record, tpc, tbl, tmpl, trace>>
    /\ UNCHANGED notSel
GroupByTemplate ==
    /\ GroupBy(TemplateText(tmpl))
    /\ out' = HandleOut
    /\ UNCHANGED <<record, tpc, tbl, tmpl, trace>>
    /\ UNCHANGED notSel
OrderByTemplate ==
    /\ OrderBy(TemplateText(tmpl))
    /\ out' = HandleOut
    /\ UNCHANGED <<record, tpc, tbl, tmpl, trace>>
    /\ UNCHANGED notSel

\* A table built from one of the source record types, and a template.
BuiltInit ==
    /\ MigIdle
    /\ TxIdle
    /\ ThrIdle
    /\ HeapIdle
    /\ record \in SourceRecords
    /\ tpc = "built"
    /\ tbl = NewTable(TableName, record)
    /\ ddl = <<>>
    /\ out = NoOut
    /\ calls = <<>>
    /\ sel = NoSelect
    /\ trace = <<>>

TemplateInit == BuiltInit /\ tmpl \in TemplatePool

TemplateNext ==
    \/ ResolveTemplate
    \/ SelectTemplate
    \/ AsTemplate
    \/ WhereTemplate
    \/ GroupByTemplate
    \/ OrderByTemplate

TemplateSpec == TemplateInit /\ [][TemplateNext]_vars

\* The clause texts the builder methods are called with: one that resolves to a
\* column, one that resolves to nothing, the empty text.
Clauses == {<<Ref(nID), Text(<<" = ? ">>)>>, <<Ref(nMissing)>>, <<>>}

LimitArgs == {<<0, 0>>, <<5, 10>>}

Called(op, arg) == [op |-> op, arg |-> arg]

\* The builder calls, recorded in trace in the order they are made.
CallAs ==
    /\ Len(trace) < MaxCalls
    /\ As(TemplateText(tmpl))
    /\ trace' = Append(trace, Called("As", <<>>))
    /\ out' = HandleOut
    /\ UNCHANGED <<record, tpc, tbl, tmpl>>
    /\ UNCHANGED notSel
CallWhere ==
    /\ Len(trace) < MaxCalls
    /\ Where(TemplateText(tmpl))
    /\ trace' = Append(trace, Called("Where", <<>>))
    /\ out' = HandleOut
    /\ UNCHANGED <<record, tpc, tbl, tmpl>>
    /\ UNCHANGED notSel
CallGroupBy ==
    /\ Len(trace) < MaxCalls
    /\ GroupBy(TemplateText(tmpl))
    /\ trace' = Append(trace, Called("GroupBy", <<>>))
    /\ out' = HandleOut
    /\ UNCHANGED <<record, tpc, tbl, tmpl>>
    /\ UNCHANGED notSel
CallOrderBy ==
    /\ Len(trace) < MaxCalls
    /\ OrderBy(TemplateText(tmpl))
    /\ trace' = Append(trace, Called("OrderBy", <<>>))
    /\ out' = HandleOut
    /\ UNCHANGED <<record, tpc, tbl, tmpl>>
    /\ UNCHANGED notSel
CallLimit ==
    /\ Len(trace) < MaxCalls
    /\ \E a \in LimitArgs :
          /\ Limit(a[1], a[2])
          /\ trace' = Append(trace, Called("Limit", a))
    /\ out' = HandleOut
    /\ UNCHANGED <<record, tpc, tbl, tmpl>>
    /\ UNCHANGED notSel

\* sel.Query(), select.go:113-140; n records how many builder calls preceded it.
SelectQuery ==
    /\ ~sel.nil
    /\ out' = [op |-> "Query", n |-> Len(trace), stmt |-> <<Query(sel, tbl)>>,
               args |-> <<>>, err |-> "nil"]
    /\ UNCHANGED <<record, tpc, tbl, selVars>>
    /\ UNCHANGED notSel

SelectInit == BuiltInit /\ tmpl \in Clauses

SelectNext ==
    \/ SelectTemplate
    \/ CallAs
    \/ CallWhere
    \/ CallGroupBy
    \/ CallOrderBy
    \/ CallLimit
    \/ SelectQuery

SelectSpec == SelectInit /\ [][SelectNext]_vars

----------------------------------------------------------------------------
(* Transactional, src/unnamed/part_000:349-377 *)

\* What fn writes through the queryer it is given, and the errors of the database.
Writes == {"w1", "w2"}
BeginErrors == {"nil", "ebegin"}
FnErrors == {"nil", "efn"}
EndErrors == {"nil", "eend"}

\* part_000:364-366: the error returned when the rollback after an error fails too.
RollbackError(rollbackErr, err) ==
    <<"rolback error: ", rollbackErr, " - when trying to rollback from error: ", err>>

\* part_000:353-356 and the call of fn at 359: db.Beginx(); if it fails its error is
\* returned, otherwise fn is entered with the transaction as its queryer.
Transactional ==
    /\ tx.pc # "fn"
    /\ tx.n < MaxTx
    /\ \E err \in BeginErrors :
          tx' = IF err # "nil"
                THEN [pc |-> "done", n |-> tx.n + 1, begun |-> FALSE, pending |-> <<>>,
                      events |-> <<"Beginx">>, ret |-> <<>>, result |-> <<err>>]
                ELSE [pc |-> "fn", n |-> tx.n + 1, begun |-> TRUE, pending |-> <<>>,
                      events |-> <<"Beginx", "fn">>, ret |-> <<>>, result |-> <<>>]
    /\ UNCHANGED database
    /\ UNCHANGED notTx

\* fn executes a statement on the queryer it was given (the transaction).
FnExec ==
    /\ tx.pc = "fn"
    /\ Len(tx.pending) < MaxExecs
    /\ \E w \in Writes :
          tx' = [tx EXCEPT !.pending = Append(@, w), !.events = Append(@, "Exec")]
    /\ UNCHANGED database
    /\ UNCHANGED notTx

\* part_000:359-376: fn returns (commit, err), and Transactional ends the
\* transaction; endErr is what tx.Rollback() or tx.Commit() returns.
Commits(commit, err) == err = "nil" /\ commit
AfterFn(commit, err, endErr) ==
    IF err # "nil"
    THEN [events |-> <<"Rollback">>,
          result |-> IF endErr # "nil" THEN RollbackError(endErr, err) ELSE <<err>>]
    ELSE IF ~Commits(commit, err)
    THEN [events |-> <<"Rollback">>, result |-> <<endErr>>]
    ELSE [events |-> <<"Commit">>, result |-> <<endErr>>]
FnReturns ==
    /\ tx.pc = "fn"
    /\ \E commit \in BOOLEAN, err \in FnErrors, endErr \in EndErrors :
          LET end == AfterFn(commit, err, endErr)
          IN  /\ tx' = [tx EXCEPT !.pc = "done", !.ret = <<commit, err>>,
                                  !.events = @ \o end.events, !.result = end.result]
              /\ database' = IF end.events = <<"Commit">> /\ endErr = "nil"
                             THEN [database EXCEPT !.rows = @ \o tx.pending]
                             ELSE database
    /\ UNCHANGED notTx

\* fn panics (as Table.Update does for a table without primary column,
\* table.go:199): Transactional has no deferred call, so the panic leaves it
\* at line 359 and the transaction is neither committed nor rolled back.
FnPanics ==
    /\ tx.pc = "fn"
    /\ tx' = [tx EXCEPT !.pc = "done", !.ret = <<"panic">>, !.result = <<"panic">>]
    /\ database' = [database EXCEPT !.open = @ + 1]
    /\ UNCHANGED notTx

TxInit == Init

TxNext ==
    \/ Transactional
    \/ FnExec
    \/ FnReturns
    \/ FnPanics

TxSpec == TxInit /\ [][TxNext]_vars

----------------------------------------------------------------------------
(* Concurrent callers of one Table, table.go:79-228 and select.go:246-417 *)

Callers == 1..MaxCallers

TableOperations ==
    {"TableQuery", "Insert", "Update", "Delete", "Select", "TemplateMap", "ResolveQueryTemplates"}

\* The arguments of an operation: the number of objects of an Insert, the object
\* of a Delete, the text of a Select or of ResolveQueryTemplates.
ArgumentsOf(op) ==
    CASE op \in {"Insert", "Delete"} -> {MaxRecords}
      [] op \in {"Select", "ResolveQueryTemplates"} -> {TemplateText(ExampleTemplate)}
      [] OTHER -> {0}

\* What an operation returns (or hands to the queryer) when it runs on table.
Panicked == [stmt |-> <<>>, args |-> <<>>, err |-> "panic"]
Statement(stmt, args) ==
    IF \E k \in 1..Len(args) : args[k].path = <<>> THEN Panicked
    ELSE [stmt |-> stmt, args |-> args, err |-> "nil"]
RunOn(table, op, arg) ==
    CASE op = "TableQuery" -> Statement(TablerToQuery(table), <<>>)
      [] op = "Insert" ->
            Statement(InsertStatement(table, [k \in 1..arg |-> k]), InsertArgs(table, [k \in 1..arg |-> k]))
      [] op = "Update" ->
            IF table.Descriptor.PrimaryColumn = 0 THEN Panicked
            ELSE Statement(UpdateStatement(table), UpdateArgs(table, 1))
      [] op = "Delete" ->
            IF table.Descriptor.PrimaryColumn = 0 THEN Panicked
            ELSE Statement(DeleteStatement(table), DeleteArgs(table, arg))
      [] op = "Select" ->
            [stmt |-> <<Query(NewSelectOf(replaceStructFieldsWithSQLFields(arg, TemplateMap(table)),
                                          FromTable), table)>>,
             args |-> <<>>, err |-> "nil"]
      [] op = "TemplateMap" -> [stmt |-> TemplateMap(table), args |-> <<>>, err |-> "nil"]
      [] op = "ResolveQueryTemplates" ->
            [stmt |-> <<replaceStructFieldsWithSQLFields(arg, TemplateMap(table))>>,
             args |-> <<>>, err |-> "nil"]

\* The Table as a step of an operation leaves it: no method of Table assigns to a
\* field of the Table, of its descriptor or of a column.
TableAfterUpdateDropsPrimary(table, op) ==
    IF op = "Update" THEN [table EXCEPT !.Descriptor.PrimaryColumn = 0] ELSE table
TableAfter(table, op) == table

IdleCaller == [pc |-> "idle", op |-> "none", arg |-> 0, k |-> 0, cols |-> <<>>, map |-> <<>>,
               res |-> <<>>]

\* Caller c enters an operation of the Table.
Enter(c) ==
    /\ thr[c].pc # "loop"
    /\ \E op \in TableOperations :
          \E arg \in ArgumentsOf(op) :
              thr' = [thr EXCEPT ![c] = [pc |-> "loop", op |-> op, arg |-> arg, k |-> 1,
                                         cols |-> <<>>, map |-> <<>>, res |-> <<>>]]
    /\ UNCHANGED <<record, tpc, tbl>>
    /\ UNCHANGED notThr

\* One iteration of the operation's loop over desc.Columns (desc.ColumnMap for
\* TemplateMap): the caller reads column k of the shared descriptor.
ReadColumn(c) ==
    /\ thr[c].pc = "loop"
    /\ thr[c].k <= Len(tbl.Descriptor.Columns)
    /\ thr' = [thr EXCEPT ![c].k = @ + 1,
                          ![c].cols = Append(@, tbl.Descriptor.Columns[thr[c].k]),
                          ![c].map = IF thr[c].k <= Len(tbl.Descriptor.ColumnMap)
                                     THEN Append(@, tbl.Descriptor.ColumnMap[thr[c].k]) ELSE @]
    /\ tbl' = TableAfter(tbl, thr[c].op)
    /\ UNCHANGED <<record, tpc>>
    /\ UNCHANGED notThr

\* The loop is over: the operation reads the rest of the Table (name, engine,
\* PrimaryColumn) and returns what it built from what it read.
Leave(c) ==
    /\ thr[c].pc = "loop"
    /\ thr[c].k > Len(tbl.Descriptor.Columns)
    /\ LET read == [tbl EXCEPT !.Descriptor.Columns = thr[c].cols,
                               !.Descriptor.ColumnMap = thr[c].map]
       IN  thr' = [thr EXCEPT ![c].pc = "done", ![c].cols = <<>>, ![c].map = <<>>,
                              ![c].res = RunOn(read, thr[c].op, thr[c].arg)]
    /\ tbl' = TableAfter(tbl, thr[c].op)
    /\ UNCHANGED <<record, tpc>>
    /\ UNCHANGED notThr

ConcInit ==
    /\ MigIdle
    /\ TxIdle
    /\ SelIdle
    /\ record \in SourceRecords
    /\ tpc = "built"
    /\ tbl = NewTable(TableName, record)
    /\ ddl = <<>>
    /\ out = NoOut
    /\ calls = <<>>
    /\ thr = [c \in Callers |-> IdleCaller]
    /\ HeapIdle

ConcNext == \E c \in Callers : Enter(c) \/ ReadColumn(c) \/ Leave(c)

ConcSpec == ConcInit /\ [][ConcNext]_vars

----------------------------------------------------------------------------
(* Tagged record types and the CREATE TABLE statement under observation *)

nKey == <<"K", "e", "y">>
nOwnerID == <<"O", "w", "n", "e", "r", "I", "D">>
nGhost == <<"G", "h", "o", "s", "t">>

\* Key int64 `db:"id" sql:"name=key,name=uid"`
fKey == Field(nKey, Type("Int64"), cID,
              <<"name", "=", "k", "e", "y", ",", "name", "=", "u", "i", "d">>)
\* OwnerID int64 `sql:"name=owner,NOT NULL"`
fOwnerID == Field(nOwnerID, Type("Int64"), <<>>,
                  <<"name", "=", "o", "w", "n", "e", "r", ",", "NOT NULL">>)
\* Ghost map[string]string `db:"ghost" sql:"primary,-"`
fGhost == Field(nGhost, Type("Map"), <<"g", "h", "o", "s", "t">>, <<"primary", ",", "-">>)

\* ID int64 `db:"row_id"`, beside an embedded record that has an ID of its own
fRowID == Field(nID, Type("Int64"), <<"r", "o", "w", "_", "i", "d">>, <<>>)

TagPool ==
    {fID, fModel, fName, fAge, fVersion, fUserID, fSecret, fCache, fGhost, fKey, fOwnerID,
     fRowID}

TaggedRecords ==
    {[kind |-> "Struct", elem |-> "", fields |-> fs] :
        fs \in {t \in BSeq(TagPool, MaxFields) :
                   \A i, j \in 1..Len(t) : i # j => t[i].name # t[j].name}}

\* The clauses a caller puts in table.KeysAndIndices.
KeyClauses == {<<"KEY by_name (name)">>, <<"UNIQUE KEY by_id (id)">>}

\* table.KeysAndIndices = keys: the field is exported (table.go:27-33) and read
\* by TableKeysAndIndices (table.go:70-72).
SetKeysAndIndices ==
    /\ tpc = "built"
    /\ ~tbl.nil
    /\ \E keys \in BSeq(KeyClauses, MaxKeys) : tbl' = [tbl EXCEPT !.KeysAndIndices = keys]
    /\ UNCHANGED <<record, tpc, ddl, out, calls>>
    /\ UNCHANGED notTab

TagInit ==
    /\ MigIdle
    /\ SelIdle
    /\ TxIdle
    /\ ThrIdle
    /\ HeapIdle
    /\ record \in TaggedRecords
    /\ tpc = "start"
    /\ tbl = NoTable
    /\ ddl = <<>>
    /\ out = NoOut
    /\ calls = <<>>

\* The caller sets the keys before asking for the statement.
TagNext ==
    \/ BuildTable
    \/ (ddl = <<>> /\ SetKeysAndIndices)
    \/ TableQuery

TagSpec == TagInit /\ [][TagNext]_vars

----------------------------------------------------------------------------
(* Selects nested on Selects, select.go:56-153 *)

\* The From of a Select made by sel.Select(fields): the *Select it was called on.
FromRef(j) == [kind |-> "Select", ref |-> j]

\* Select.TemplateMap, select.go:94-98: sel.From.TemplateMap(), down to the Table.
SelectTemplateMapEmpty(h, j, table) == <<>>
RECURSIVE SelectTemplateMap(_, _, _)
SelectTemplateMap(h, j, table) ==
    IF h[j].From.kind = "Table" THEN TemplateMap(table)
    ELSE SelectTemplateMap(h, h[j].From.ref, table)

\* Table.ResultType, table.go:208-211, and Select.ResultType, select.go:100-103.
TableResultType(table) == [kind |-> "Struct", fields |-> table.Fields]
RECURSIVE SelectResultType(_, _, _)
SelectResultType(h, j, table) ==
    IF h[j].From.kind = "Table" THEN TableResultType(table)
    ELSE SelectResultType(h, h[j].From.ref, table)

\* The Select at j with the Selects it is nested on, as they are now.
DerefWithoutClauses(h, j) ==
    [h[j] EXCEPT !.From = IF h[j].From.kind = "Table" THEN FromTable
                          ELSE FromSelect(NewSelectOf(h[h[j].From.ref].Fields, FromTable))]
RECURSIVE Deref(_, _)
Deref(h, j) ==
    [h[j] EXCEPT !.From = IF h[j].From.kind = "Table" THEN FromTable
                          ELSE FromSelect(Deref(h, h[j].From.ref))]

\* sel.Query() for the Select at j, select.go:113-140 with 89-92.
QueryOf(h, j, table) == Query(Deref(h, j), table)

\* The texts handed to table.Select(fields), to sel.Select(fields) and to the
\* clause methods.
TableFieldText == <<Ref(nID)>>
NestedFieldText == <<Ref(nName)>>
ClauseText == <<Ref(nName), Text(<<" = ? ">>)>>

ClauseFields ==
    {"Alias", "WhereCondition", "GroupByExpression", "OrderByExpression", "LimitResults"}
ClausesSet(h) ==
    Cardinality({<<j, m>> \in (1..Len(h)) \X ClauseFields : h[j][m] # <<>>})

\* sel.Field = val; return sel (select.go:57-59 and alike): the Select is assigned
\* in place and the same *Select is returned.
AssignedCopy(h, j, m, val) == Append(h, [h[j] EXCEPT ![m] = val])
Assigned(h, j, m, val) == [h EXCEPT ![j][m] = val]

Returned(op, j) == [op |-> op, n |-> j, stmt |-> <<>>, args |-> <<>>, err |-> "nil"]

\* table.Select(fields), table.go:156-161
SelectOnTable ==
    /\ tpc = "built"
    /\ ~tbl.nil
    /\ Len(heap) < MaxSelects
    /\ heap' = Append(heap, NewSelectOf(replaceStructFieldsWithSQLFields(
                                           TemplateText(TableFieldText), TemplateMap(tbl)), FromTable))
    /\ out' = Returned("Select", Len(heap) + 1)
    /\ calls' = <<>>
    /\ UNCHANGED notHeap

\* sel.Select(fields), select.go:105-111, on the Select at j
SelectOnSelect ==
    /\ Len(heap) < MaxSelects
    /\ \E j \in 1..Len(heap) :
          heap' = Append(heap, NewSelectOf(replaceStructFieldsWithSQLFields(
                                   TemplateText(NestedFieldText), SelectTemplateMap(heap, j, tbl)),
                               FromRef(j)))
    /\ out' = Returned("Select", Len(heap) + 1)
    /\ calls' = <<>>
    /\ UNCHANGED notHeap

\* A clause may be set when it is set already or fewer than MaxClauses are.
MaySet(j, m) == heap[j][m] # <<>> \/ ClausesSet(heap) < MaxClauses

SetClause(j, op, m) ==
    /\ MaySet(j, m)
    /\ heap' = Assigned(heap, j, m, replaceStructFieldsWithSQLFields(
                                        TemplateText(ClauseText), SelectTemplateMap(heap, j, tbl)))
    /\ out' = Returned(op, j)

\* sel.As, sel.Where, sel.GroupBy, sel.OrderBy, sel.Limit on the Select at j
AsAt ==
    /\ \E j \in 1..Len(heap) : SetClause(j, "As", "Alias")
    /\ calls' = <<>>
    /\ UNCHANGED notHeap
WhereAt ==
    /\ \E j \in 1..Len(heap) : SetClause(j, "Where", "WhereCondition")
    /\ calls' = <<>>
    /\ UNCHANGED notHeap
GroupByAt ==
    /\ \E j \in 1..Len(heap) : SetClause(j, "GroupBy", "GroupByExpression")
    /\ calls' = <<>>
    /\ UNCHANGED notHeap
OrderByAt ==
    /\ \E j \in 1..Len(heap) : SetClause(j, "OrderBy", "OrderByExpression")
    /\ calls' = <<>>
    /\ UNCHANGED notHeap
LimitAt ==
    /\ \E j \in 1..Len(heap) :
          /\ MaySet(j, "LimitResults")
          /\ heap' = Assigned(heap, j, "LimitResults", <<[Offset |-> 5, RowCount |-> 10]>>)
          /\ out' = Returned("Limit", j)
    /\ calls' = <<>>
    /\ UNCHANGED notHeap

\* sel.Query() on the Select at j
QueryAt ==
    /\ \E j \in 1..Len(heap) :
          out' = [op |-> "Query", n |-> j, stmt |-> <<QueryOf(heap, j, tbl)>>, args |-> <<>>,
                  err |-> "nil"]
    /\ calls' = <<>>
    /\ UNCHANGED heap
    /\ UNCHANGED notHeap

\* sel.Run(queryer) on the Select at j, select.go:143-153: the destination is a
\* pointer to a slice of pointers to the result type; on an error nil is returned
\* with it, otherwise the slice.
RunResultIgnoringError(resultType, err) ==
    [nil |-> FALSE, kind |-> "Slice", elem |-> [kind |-> "Ptr", elem |-> resultType]]
RunResult(resultType, err) ==
    IF err # "nil" THEN [nil |-> TRUE]
    ELSE [nil |-> FALSE, kind |-> "Slice", elem |-> [kind |-> "Ptr", elem |-> resultType]]
RunAt ==
    /\ \E j \in 1..Len(heap), e \in Outcomes :
          LET query == QueryOf(heap, j, tbl)
          IN  /\ calls' = <<[stmt |-> <<query>>, args |-> <<>>, err |-> e]>>
              /\ out' = [op |-> "Run", n |-> j, stmt |-> <<query>>, args |-> <<>>, err |-> e,
                         res |-> RunResult(SelectResultType(heap, j, tbl), e)]
    /\ UNCHANGED heap
    /\ UNCHANGED notHeap

NestInit == BuiltInit /\ tmpl = <<>>

\* The caller makes one Select on the Table and nests the others on it; it also
\* inserts, updates and deletes records of the Table.
NestNext ==
    \/ Insert
    \/ Update
    \/ Delete
    \/ (heap = <<>> /\ SelectOnTable)
    \/ SelectOnSelect
    \/ AsAt
    \/ WhereAt
    \/ GroupByAt
    \/ OrderByAt
    \/ LimitAt
    \/ QueryAt
    \/ RunAt

NestSpec == NestInit /\ [][NestNext]_vars

----------------------------------------------------------------------------
(* Properties of the migration runner *)

\* Lexicographic order of byte strings, stated by the first position where they differ.
LexLT(a, b) ==
    \E k \in 1..Len(b) :
        /\ \A j \in 1..(k - 1) : j <= Len(a) /\ a[j] = b[j]
        /\ (k > Len(a) \/ Ord[a[k]] < Ord[b[k]])

IsPrefix(a, b) == Len(a) <= Len(b) /\ SubSeq(b, 1, Len(a)) = a

Running == pc # "idle"

\* The version the bookkeeping row held when the run was entered.
HadRow == pre.rows # <<>>
StartVersion == IF HadRow THEN pre.rows[1].version ELSE V0

MigEntries == SelectSeq(log, LAMBDA x : x.op = "MIG")
Attempted == [k \in 1..Len(MigEntries) |-> <<MigEntries[k].g, MigEntries[k].m>>]
OpsOf(l) == [k \in 1..Len(l) |-> l[k].op]
NoQueryerError == \A k \in 1..Len(log) : log[k].err = "nil"

\* The migrations of the groups whose version lies in (stored, current], in the caller's order.
RECURSIVE ExpectedFrom(_, _, _, _)
ExpectedFrom(vs, stored, current, g) ==
    IF g > Len(vs) THEN <<>>
    ELSE (IF LexLT(stored, vs[g].version)
             /\ (vs[g].version = current \/ LexLT(vs[g].version, current))
          THEN [m \in 1..vs[g].migrations |-> <<g, m>>]
          ELSE <<>>) \o ExpectedFrom(vs, stored, current, g + 1)
Expected == ExpectedFrom(versions, StartVersion, target, 1)

\* C1: in a run whose target is greater than the stored version, the migrations
\* invoked are, in order, those of the supplied groups with stored < v <= target
\* (each once, none outside the range); the row's version becomes the target, with
\* the date read at the update, only after all of them have succeeded.
C1_MigrateAppliesRangeInOrder ==
    (Running /\ LexLT(StartVersion, target)) =>
        /\ IsPrefix(Attempted, Expected)
        /\ (store.rows # <<>> /\ store.rows[1].version = target) =>
              /\ Attempted = Expected
              /\ NoQueryerError
              /\ store.rows[1].date = runs
              /\ log[Len(log)].op = "UPDATE"
        /\ (pc = "done" /\ result = "nil") =>
              /\ Attempted = Expected
              /\ store.rows = <<[id |-> 1, version |-> target, date |-> runs]>>

C1_Witness ==
    /\ pc = "done" /\ result = "nil"
    /\ HadRow /\ StartVersion = V1_0 /\ target = V1_2
    /\ versions = <<[version |-> V1_1, migrations |-> 1], [version |-> V1_2, migrations |-> 1]>>
    /\ Attempted = <<<<1, 1>>, <<2, 1>>>>
    /\ store.rows[1].version = V1_2

\* C2: a run whose target equals the stored version executes no migration and
\* leaves the bookkeeping row (version and date) as it was, and succeeds.
C2_EqualTargetIsNoOp ==
    (Running /\ HadRow /\ StartVersion = target) =>
        /\ store.rows = pre.rows
        /\ \A k \in 1..Len(log) : log[k].op \in {"CREATE", "SELECT"}
        /\ (pc = "done" /\ NoQueryerError) => result = "nil"

C2_Witness ==
    /\ pc = "done" /\ result = "nil"
    /\ HadRow /\ StartVersion = target /\ target = V1_2
    /\ versions # <<>>
    /\ store.rows[1].date < runs

\* C3 as stated: with a target lower than the stored version the run returns the
\* ordering error and no statement at all is executed against the queryer.
C3_Original ==
    (pc = "done" /\ HadRow /\ LexLT(target, StartVersion) /\ NoQueryerError) =>
        /\ result = "order"
        /\ log = <<>>

\* C3 amended: with a target lower than the stored version the run issues only the
\* bookkeeping CREATE TABLE IF NOT EXISTS and the SELECT of the row, then returns
\* the ordering error: no migration, no INSERT and no UPDATE is executed and the
\* row is unchanged.
C3_LowerTargetRefused ==
    (Running /\ HadRow /\ LexLT(target, StartVersion)) =>
        /\ IsPrefix(OpsOf(log), <<"CREATE", "SELECT">>)
        /\ store.rows = pre.rows
        /\ (pc = "done" /\ NoQueryerError) =>
              /\ result = "order"
              /\ OpsOf(log) = <<"CREATE", "SELECT">>

C3_Witness ==
    /\ pc = "done" /\ result = "order"
    /\ HadRow /\ StartVersion = V2_0 /\ target = V1_0
    /\ versions # <<>>

\* C4: a failing migration is the last thing the run does: no later migration and
\* no update follows it, its error is the run's result, and the stored row is the
\* one the run started from (or the fresh "0" row it inserted).
C4_FailureAbortsRun ==
    \A k \in 1..Len(log) :
        (log[k].op = "MIG" /\ log[k].err # "nil") =>
            /\ k = Len(log)
            /\ pc = "done"
            /\ result = log[k].err
            /\ store.rows = IF HadRow THEN pre.rows ELSE <<FreshInfo(runs)>>

C4_Witness ==
    /\ pc = "done" /\ result = "e2"
    /\ Len(versions) = 2
    /\ versions[1].migrations = 2
    /\ Expected = <<<<1, 1>>, <<1, 2>>, <<2, 1>>>>
    /\ Attempted = <<<<1, 1>>>>
    /\ log[Len(log)] = Entry("MIG", 1, 1, "e2")

\* Once CREATE, SELECT and (if needed) INSERT have succeeded the decision is taken.
Decided ==
    /\ pc \in {"migrate", "update", "done"}
    /\ \A k \in 1..Len(log) :
          log[k].op \in {"CREATE", "SELECT", "INSERT"} => log[k].err = "nil"

\* C5: the decision and the selection of groups follow the lexicographic order of
\* the version strings: a lexicographically lower target is refused, a higher one
\* migrates exactly the groups lexicographically inside (stored, target]; with
\* stored "9" and target "10" the run is refused and nothing is applied.
C5_LexicographicOrderDecides ==
    Decided =>
        /\ LexLT(target, StartVersion) => (pc = "done" /\ result = "order" /\ Attempted = <<>>)
        /\ LexLT(StartVersion, target) => (result # "order" /\ IsPrefix(Attempted, Expected))
        /\ (StartVersion = V9 /\ target = V10) =>
              (result = "order" /\ Attempted = <<>> /\ store.rows = pre.rows)

C5_Witness ==
    /\ pc = "done" /\ result = "order"
    /\ HadRow /\ StartVersion = V9 /\ target = V10
    /\ \E g \in 1..Len(versions) : versions[g].version = V10 /\ versions[g].migrations > 0

\* C6: every run issues CREATE first and SELECT second; an INSERT is issued only
\* when no row existed, once, third, of a fresh row with version "0", before the
\* comparison; the bookkeeping table never holds more than one row.
C6_BookkeepingRowIsSingle ==
    /\ Len(store.rows) <= 1
    /\ IsPrefix(SubSeq(OpsOf(log), 1, IF Len(log) < 2 THEN Len(log) ELSE 2), <<"CREATE", "SELECT">>)
    /\ \A k \in 1..Len(log) :
          log[k].op = "INSERT" => (k = 3 /\ ~HadRow)
    /\ (pc \in {"compare", "migrate", "update"} /\ ~HadRow) =>
          /\ Len(log) >= 3 /\ log[3] = Entry("INSERT", 0, 0, "nil")
          /\ store.rows = <<FreshInfo(runs)>>
    /\ (pc = "compare" /\ HadRow) => (OpsOf(log) = <<"CREATE", "SELECT">> /\ store.rows = pre.rows)

C6_Witness ==
    /\ runs = 3
    /\ pc = "done" /\ result = "nil"
    /\ HadRow
    /\ Len(store.rows) = 1
    /\ \A k \in 1..Len(log) : log[k].op # "INSERT"
    /\ store.rows[1].id = 1

----------------------------------------------------------------------------
(* Properties of the schema builder and of Table *)

\* The fields a record type contributes, embedded structs flattened in place,
\* unexported fields (and everything under an unexported embedded struct) left out.
RECURSIVE FlatFields(_)
FlatFields(fs) ==
    IF fs = <<>> THEN <<>>
    ELSE LET f == Head(fs)
         IN  (IF ~IsUpper(f.name[1]) THEN <<>>
              ELSE IF f.anonymous THEN FlatFields(f.sub)
              ELSE <<f>>) \o FlatFields(Tail(fs))

\* d is one of the comma-separated components of the field's sql tag.
HasDirective(f, d) ==
    \E a, b \in 0..Len(f.sql) + 1 :
        /\ a < b
        /\ a = 0 \/ f.sql[a] = ","
        /\ b = Len(f.sql) + 1 \/ f.sql[b] = ","
        /\ SubSeq(f.sql, a + 1, b - 1) = <<d>>

IsSkipped(f) == f.db = <<"-">> \/ HasDirective(f, "-")

MappableKinds ==
    {"Int", "Int8", "Int16", "Int32", "Int64", "Uint", "Uint8", "Uint16", "Uint32", "Uint64",
     "Float32", "Float64", "String", "Bool"}

IsMappable(f) ==
    \/ HasDirective(f, "override")
    \/ f.type.kind \in MappableKinds
    \/ f.type.kind \in {"Array", "Slice"} /\ f.type.elem = "Uint8"
    \/ f.type.pkg = SQLPkg /\ f.type.name \in {"Date", "DateTime"}

IsEligible(f) == ~IsSkipped(f) /\ IsMappable(f)
Eligible(fs) == SelectSeq(FlatFields(fs), IsEligible)

\* No field stops the build: every exported field is skipped or mappable.
Buildable(fs) == \A k \in 1..Len(FlatFields(fs)) : IsSkipped(FlatFields(fs)[k]) \/ IsMappable(FlatFields(fs)[k])

MarkedPrimary(f) == HasDirective(f, "primary")
MarkedAuto(f) == HasDirective(f, "auto")

Built == tpc = "built"

\* The root value is a record or a pointer to a record.
IsRecord(root) == root.kind = "Struct" \/ (root.kind = "Ptr" /\ root.elem = "Struct")

\* C7: for a record type with N eligible (exported, not skipped, mappable) fields
\* none of which is marked primary, the build succeeds with exactly N columns, one
\* per eligible field in declaration order, and PrimaryColumn is Columns[0] (no
\* primary column when N = 0).
C7_FallbackPrimaryIsFirstColumn ==
    (/\ Built
     /\ IsRecord(record)
     /\ Buildable(record.fields)
     /\ \A k \in 1..Len(Eligible(record.fields)) : ~MarkedPrimary(Eligible(record.fields)[k]))
    =>
        LET E == Eligible(record.fields)
            d == tbl.Descriptor
        IN  /\ ~tbl.nil /\ tbl.err = "nil"
            /\ Len(d.Columns) = Len(E)
            /\ \A k \in 1..Len(E) : d.Columns[k].ActualName = E[k].name
            /\ d.PrimaryColumn = IF Len(E) > 0 THEN 1 ELSE 0

C7_Witness ==
    /\ Built
    /\ record.fields = <<fModel, fName>>
    /\ ~tbl.nil
    /\ Len(tbl.Descriptor.Columns) = 3
    /\ tbl.Descriptor.PrimaryColumn = 1

\* C8: in every descriptor produced, PrimaryColumn is one of the columns whenever
\* there is a column (and nil only when there is none), and when a field carries
\* the primary directive PrimaryColumn is the column of such a field.
C8_PrimaryColumnInvariant ==
    (Built /\ ~tbl.nil) =>
        LET E == Eligible(record.fields)
            d == tbl.Descriptor
        IN  /\ d.Columns # <<>> => d.PrimaryColumn \in 1..Len(d.Columns)
            /\ d.Columns = <<>> => d.PrimaryColumn = 0
            /\ (\E k \in 1..Len(E) : MarkedPrimary(E[k])) =>
                  (d.PrimaryColumn \in 1..Len(E) /\ MarkedPrimary(E[d.PrimaryColumn]))

\* The indices of the eligible fields that are not marked auto, in order.
RECURSIVE NonAutoFrom(_, _)
NonAutoFrom(E, k) ==
    IF k > Len(E) THEN <<>>
    ELSE (IF MarkedAuto(E[k]) THEN <<>> ELSE <<k>>) \o NonAutoFrom(E, k + 1)
NonAuto(E) == NonAutoFrom(E, 1)

\* The items written one after the other with a comma between neighbours.
RECURSIVE JoinComma(_)
JoinComma(items) ==
    IF items = <<>> THEN <<>>
    ELSE IF Len(items) = 1 THEN items[1]
    ELSE items[1] \o <<",">> \o JoinComma(Tail(items))

\* The names between "(" and ") VALUES " of an INSERT statement.
ValuesAt(stmt) == CHOOSE k \in 1..Len(stmt) : stmt[k] = <<") VALUES ">>
ListedColumns(stmt) == SelectSeq(SubSeq(stmt, 4, ValuesAt(stmt) - 1), LAMBDA t : t # <<",">>)

Inserted == out.op = "Insert" /\ out.err # "panic"

\* C9 as stated: the physical name of a field marked auto never appears in the
\* column list of the statement Insert builds, and its column definition is an
\* entry of the CREATE TABLE statement TableQuery builds.
C9_Original ==
    LET E == Eligible(record.fields)
        cols == tbl.Descriptor.Columns
    IN  /\ Inserted =>
              \A k \in 1..Len(E) : MarkedAuto(E[k]) =>
                  cols[k].Name \notin Range(ListedColumns(out.stmt))
        /\ ddl # <<>> =>
              \A k \in 1..Len(E) : MarkedAuto(E[k]) => ddl[3 * k + 2] = ColumnString(cols[k])

\* C9 amended: the column of a field marked auto is left out of the statement
\* Insert builds: the column list holds the physical names of the columns of the
\* other fields only, in order, and no value is bound for the auto field; its
\* physical name appears in the list only when a field not marked auto maps to the
\* same physical name.  Its column definition is an entry of the CREATE TABLE
\* statement TableQuery builds.
C9_AutoLeftOutOfInsertOnly ==
    LET E == Eligible(record.fields)
        cols == tbl.Descriptor.Columns
        others == NonAuto(E)
    IN  /\ Inserted =>
              /\ ListedColumns(out.stmt) = [j \in 1..Len(others) |-> cols[others[j]].Name]
              /\ Len(out.args) = out.n * Len(others)
              /\ \A k \in 1..Len(E) : MarkedAuto(E[k]) =>
                    /\ (\A j \in 1..Len(others) : cols[others[j]].Name # cols[k].Name) =>
                          cols[k].Name \notin Range(ListedColumns(out.stmt))
                    /\ (\A j \in 1..Len(others) : E[others[j]].name # E[k].name) =>
                          \A a \in 1..Len(out.args) :
                              out.args[a].path[Len(out.args[a].path)] # E[k].name
        /\ ddl # <<>> =>
              \A k \in 1..Len(E) : MarkedAuto(E[k]) =>
                  /\ ddl[3 * k + 1] = <<"\t">>
                  /\ ddl[3 * k + 2] = ColumnString(cols[k])
                  /\ IsPrefix(<<BackQuote>> \o cols[k].Name \o <<BackQuote, " ">>, ddl[3 * k + 2])

C9_Witness ==
    /\ record.fields = <<fID, fName>>
    /\ ddl # <<>>
    /\ Inserted /\ out.n = 1
    /\ ListedColumns(out.stmt) = <<(<<"n", "a", "m", "e">>)>>
    /\ Len(out.args) = 1
    /\ ddl[5] = <<BackQuote, "i", "d", BackQuote, " ", "bigint unsigned", " ", "NOT NULL AUTO_INCREMENT">>

\* C10: Insert of k records on a table with N columns of which A are auto makes
\* exactly one Exec call; its statement lists each non-auto column once in
\* descriptor order, followed by k parenthesised groups of N-A placeholders; its
\* k*(N-A) parameters are ordered record by record and inside a record in column
\* order; with k = 0 the VALUES list is empty, there is no parameter, and the
\* statement is still executed.  Insert returns what Exec returned.
C10_InsertIsOneStatement ==
    Inserted =>
        LET E == Eligible(record.fields)
            cols == tbl.Descriptor.Columns
            others == NonAuto(E)
            m == Len(others)
            k == out.n
            group == <<"(">> \o JoinComma([j \in 1..m |-> <<"?">>]) \o <<")">>
        IN  /\ Len(cols) = Len(E)
            /\ Len(calls) = 1
            /\ calls[1].stmt = out.stmt /\ calls[1].args = out.args /\ calls[1].err = out.err
            /\ Flatten(out.stmt) =
                   <<"INSERT INTO ", BackQuote>> \o TableName \o <<BackQuote, " (">>
                   \o JoinComma([j \in 1..m |-> cols[others[j]].Name])
                   \o <<") VALUES ">>
                   \o JoinComma([r \in 1..k |-> group])
            /\ Len(out.args) = k * m
            /\ \A r \in 1..k, j \in 1..m :
                   LET a == out.args[(r - 1) * m + j]
                   IN  a.obj = r /\ a.path[Len(a.path)] = E[others[j]].name
            /\ k = 0 => (out.args = <<>> /\ out.stmt[Len(out.stmt)] = <<") VALUES ">>)

C10_Witness ==
    /\ record.fields = <<fModel, fProfile>>
    /\ Inserted /\ out.n = 2 /\ out.err = "nil"
    /\ Len(tbl.Descriptor.Columns) = 4
    /\ Len(calls) = 1
    /\ Len(out.args) = 4
    /\ out.args[3] = Val(2, <<nProfile, nName>>)

Updated == out.op = "Update" /\ out.err # "panic"

\* The indices 1..n without p, in order.
Without(n, p) == SelectSeq([k \in 1..n |-> k], LAMBDA k : k # p)

Assignment(column) == <<BackQuote>> \o column.Name \o <<BackQuote, "=?">>

\* C11: the statement Update executes never lists the primary column in SET: the
\* SET list is the other columns in descriptor order; the parameters are their
\* values in that order followed by the primary key value, which is the last
\* parameter and the one of the WHERE clause.
C11_UpdateBindsPrimaryKeyLast ==
    Updated =>
        LET cols == tbl.Descriptor.Columns
            p == tbl.Descriptor.PrimaryColumn
            set == Without(Len(cols), p)
        IN  /\ p \in 1..Len(cols)
            /\ Len(calls) = 1 /\ calls[1].stmt = out.stmt /\ calls[1].args = out.args
            /\ Flatten(out.stmt) =
                   <<"UPDATE ">> \o TableName \o <<" SET ">>
                   \o JoinComma([j \in 1..Len(set) |-> Assignment(cols[set[j]])])
                   \o <<" WHERE ">> \o Assignment(cols[p])
            /\ Len(out.args) = Len(set) + 1
            /\ \A j \in 1..Len(set) :
                   /\ out.args[j].obj = 1
                   /\ out.args[j].path[Len(out.args[j].path)] = cols[set[j]].ActualName
            /\ LET last == out.args[Len(out.args)]
               IN  last.obj = 1 /\ last.path[Len(last.path)] = cols[p].ActualName

C11_Witness ==
    /\ record.fields = <<fID, fProfile>>
    /\ Updated /\ out.err = "nil"
    /\ tbl.Descriptor.PrimaryColumn = 1
    /\ Len(out.args) = 3
    /\ out.args[3] = Val(1, <<nID>>)
    /\ out.args[1] = Val(1, <<nProfile, nName>>)

\* The assignments between SET and WHERE of an UPDATE statement.
SetList(stmt) == SelectSeq(SubSeq(stmt, 2, Len(stmt) - 1), LAMBDA t : t # <<",">>)

\* C12 as stated: no column whose field is marked auto is assigned in the SET list
\* of the statement Update builds, and no value is bound for it.
C12_Original ==
    Updated =>
        LET E == Eligible(record.fields)
            cols == tbl.Descriptor.Columns
        IN  \A k \in 1..Len(E) : MarkedAuto(E[k]) =>
                /\ Assignment(cols[k]) \notin Range(SetList(out.stmt))
                /\ \A j \in 1..Len(SetList(out.stmt)) :
                       out.args[j].path[Len(out.args[j].path)] # E[k].name

\* C12 amended: Update leaves out of the SET list the primary column only: the
\* column of a field marked auto that is not the primary column is assigned in
\* SET at its descriptor position and its value is bound at that position; an
\* auto column is absent from SET only when it is the primary column.
C12_AutoColumnsAreUpdated ==
    Updated =>
        LET E == Eligible(record.fields)
            cols == tbl.Descriptor.Columns
            p == tbl.Descriptor.PrimaryColumn
        IN  /\ Len(SetList(out.stmt)) = Len(cols) - 1
            /\ \A k \in 1..Len(E) : MarkedAuto(E[k]) =>
                   IF k = p
                   THEN \A j \in 1..Len(SetList(out.stmt)) :
                            out.args[j].path[Len(out.args[j].path)] # E[k].name
                            \/ \E i \in 1..Len(E) : i # k /\ E[i].name = E[k].name
                   ELSE LET j == IF k > p THEN k - 1 ELSE k
                        IN  /\ SetList(out.stmt)[j] = Assignment(cols[k])
                            /\ out.args[j].path[Len(out.args[j].path)] = E[k].name

C12_Witness ==
    /\ record.fields = <<fModel, fName>>
    /\ Updated
    /\ tbl.Descriptor.PrimaryColumn = 1
    /\ SetList(out.stmt)[1] =
           <<BackQuote, "c", "r", "e", "a", "t", "e", "d", "_", "a", "t", BackQuote, "=?">>
    /\ out.args[1] = Val(1, <<nModel, nCreatedAt>>)

Deleted == out.op = "Delete" /\ out.err # "panic"

\* C13: Delete executes DELETE FROM name WHERE `primary`=? with exactly one
\* parameter, the primary key value of the record it is given; the statement is
\* the same for every record and no other field's value is bound.
C13_DeleteBindsOnlyPrimaryKey ==
    Deleted =>
        LET cols == tbl.Descriptor.Columns
            p == tbl.Descriptor.PrimaryColumn
        IN  /\ p \in 1..Len(cols)
            /\ Len(calls) = 1 /\ calls[1].stmt = out.stmt /\ calls[1].args = out.args
            /\ calls[1].err = out.err
            /\ Flatten(out.stmt) =
                   <<"DELETE FROM ">> \o TableName \o <<" ", " WHERE ">> \o Assignment(cols[p])
            /\ Len(out.args) = 1
            /\ out.args[1].obj = out.n
            /\ out.args[1].path[Len(out.args[1].path)] = cols[p].ActualName

C13_Witness ==
    /\ record.fields = <<fModel, fProfile>>
    /\ Deleted /\ out.n = 2 /\ out.err = "nil"
    /\ out.args = <<Val(2, <<nModel, nID>>)>>
    /\ Flatten(out.stmt) =
           <<"DELETE FROM ", "u", "s", "e", "r", "s", " ", " WHERE ", BackQuote, "i", "d", BackQuote, "=?">>

----------------------------------------------------------------------------
(* Properties of templates and of the Select builder *)

\* A template made of plain text without braces and of references {{Name}} only.
WellFormed(pieces) == \A k \in 1..Len(pieces) : pieces[k].kind \in {"text", "ref"}

\* What a piece stands for: plain text stands for itself, a reference to the
\* logical name of a column for the back-quoted physical name, any other
\* reference for nothing.
ImageOf(p) ==
    LET E == Eligible(record.fields)
        hits == {k \in 1..Len(E) : E[k].name = p.val}
    IN  IF p.kind = "text" THEN p.val
        ELSE IF hits = {} THEN <<>>
        ELSE <<BackQuote>> \o tbl.Descriptor.Columns[CHOOSE k \in hits : TRUE].Name \o <<BackQuote>>
RECURSIVE Resolved(_)
Resolved(pieces) ==
    IF pieces = <<>> THEN <<>> ELSE ImageOf(Head(pieces)) \o Resolved(Tail(pieces))

\* C14: in the text given as fields, where, groupBy, orderBy (and alias, and to
\* ResolveQueryTemplates) every {{Name}} whose name is a logical name of the source
\* is replaced by the back-quoted physical name, every other {{Name}} by nothing,
\* and the text outside the references is unchanged; "{{ID}} = ? AND {{Missing}} = ?"
\* becomes "`id` = ? AND  = ?".
C14_TemplatesResolveOrDrop ==
    WellFormed(tmpl) =>
        /\ out.op = "ResolveQueryTemplates" => out.stmt = <<Resolved(tmpl)>>
        /\ ~sel.nil =>
              /\ sel.Fields = Resolved(tmpl)
              /\ sel.WhereCondition \in {<<>>, Resolved(tmpl)}
              /\ sel.GroupByExpression \in {<<>>, Resolved(tmpl)}
              /\ sel.OrderByExpression \in {<<>>, Resolved(tmpl)}
              /\ sel.Alias \in {<<>>, Resolved(tmpl)}
        /\ (tmpl = ExampleTemplate /\ ~sel.nil /\ sel.WhereCondition # <<>>) =>
              sel.WhereCondition =
                  IF record.fields = <<fModel, fProfile>>
                  THEN <<BackQuote, "i", "d", BackQuote, " = ? AND ", " = ?">>
                  ELSE <<" = ? AND ", " = ?">>

C14_Witness ==
    /\ tmpl = ExampleTemplate
    /\ record.fields = <<fModel, fProfile>>
    /\ ~sel.nil
    /\ sel.WhereCondition = <<BackQuote, "i", "d", BackQuote, " = ? AND ", " = ?">>
    /\ sel.GroupByExpression = sel.WhereCondition
    /\ sel.OrderByExpression = sel.WhereCondition
    /\ out = [op |-> "ResolveQueryTemplates", n |-> 0, stmt |-> <<sel.WhereCondition>>,
              args |-> <<>>, err |-> "nil"]

\* The last call of a builder method in the calls made so far, 0 if it was not called.
LastCall(op) ==
    LET made == {k \in 1..Len(trace) : trace[k].op = op}
    IN  IF made = {} THEN 0 ELSE CHOOSE k \in made : \A x \in made : x <= k

\* A clause: its keyword and the text its method was given, nothing if the method
\* was not called or the text is empty.
ClauseOf(keyword, op) ==
    IF LastCall(op) # 0 /\ Resolved(tmpl) # <<>> THEN <<keyword>> \o Resolved(tmpl) ELSE <<>>

Decimal(n) == CASE n = 0 -> <<"0">> [] n = 5 -> <<"5">> [] n = 10 -> <<"1", "0">>

LimitClause ==
    IF LastCall("Limit") = 0 THEN <<>>
    ELSE <<" LIMIT ">> \o Decimal(trace[LastCall("Limit")].arg[1]) \o <<", ">>
         \o Decimal(trace[LastCall("Limit")].arg[2])

\* C15: whatever the order in which As, Where, GroupBy, OrderBy and Limit were
\* called, Query() renders SELECT fields FROM source and then AS, WHERE, GROUP BY,
\* ORDER BY, LIMIT in that order; a clause whose text is empty and a limit that was
\* never set are left out, and the limit reads LIMIT offset, count (the arguments
\* of the last Limit call).
C15_QueryRendersClausesInFixedOrder ==
    out.op = "Query" =>
        /\ out.n = Len(trace)
        /\ out.stmt = << <<"SELECT ">> \o Resolved(tmpl) \o <<" FROM ", BackQuote>> \o TableName
                         \o <<BackQuote>>
                         \o ClauseOf(" AS ", "As")
                         \o ClauseOf(" WHERE ", "Where")
                         \o ClauseOf(" GROUP BY ", "GroupBy")
                         \o ClauseOf(" ORDER BY ", "OrderBy")
                         \o LimitClause >>

\* The methods called in the reverse of the order of rendering.
C15_Witness ==
    /\ record.fields = <<fModel, fProfile>>
    /\ trace = <<Called("Limit", <<5, 10>>), Called("OrderBy", <<>>), Called("GroupBy", <<>>),
                 Called("Where", <<>>), Called("As", <<>>)>>
    /\ out.op = "Query"
    /\ out.stmt = << <<"SELECT ", BackQuote, "i", "d", BackQuote, " = ? ", " FROM ",
                       BackQuote, "u", "s", "e", "r", "s", BackQuote,
                       " AS ", BackQuote, "i", "d", BackQuote, " = ? ",
                       " WHERE ", BackQuote, "i", "d", BackQuote, " = ? ",
                       " GROUP BY ", BackQuote, "i", "d", BackQuote, " = ? ",
                       " ORDER BY ", BackQuote, "i", "d", BackQuote, " = ? ",
                       " LIMIT ", "5", ", ", "1", "0">> >>

\* A clause text that resolves to nothing leaves its clause out although its method
\* was called, and without Limit there is no LIMIT.
C15_WitnessOmitted ==
    /\ tmpl = <<Ref(nMissing)>>
    /\ LastCall("Where") # 0 /\ LastCall("OrderBy") # 0 /\ LastCall("Limit") = 0
    /\ out.op = "Query"
    /\ out.stmt = << <<"SELECT ", " FROM ", BackQuote, "u", "s", "e", "r", "s", BackQuote>> >>

----------------------------------------------------------------------------
(* Properties of Transactional *)

Count(events, e) == Cardinality({k \in 1..Len(events) : events[k] = e})

\* C16: a transaction that was begun is committed exactly when fn returned
\* (true, nil); on every other exit of fn it is rolled back and not committed; one
\* and only one of Commit and Rollback is called on each begun transaction; and fn
\* is not run when Beginx fails.
C16_CommitOrRollbackExactlyOnce ==
    tx.pc = "done" =>
        /\ tx.begun =>
              /\ Count(tx.events, "Commit") + Count(tx.events, "Rollback") = 1
              /\ Count(tx.events, "Commit") = 1 <=> tx.ret = <<TRUE, "nil">>
        /\ ~tx.begun => tx.events = <<"Beginx">>

\* The same for the calls from which fn returns.
C16_SettledWhenFnReturns ==
    (tx.pc = "done" /\ tx.ret # <<"panic">>) =>
        /\ tx.begun =>
              /\ Count(tx.events, "Commit") + Count(tx.events, "Rollback") = 1
              /\ Count(tx.events, "Commit") = 1 <=> tx.ret = <<TRUE, "nil">>
        /\ ~tx.begun => tx.events = <<"Beginx">> /\ tx.ret = <<>>

C16_WitnessCommitted ==
    /\ tx.pc = "done" /\ tx.ret = <<TRUE, "nil">>
    /\ tx.events = <<"Beginx", "fn", "Exec", "Exec", "Commit">>
    /\ database.rows = <<"w1", "w2">>

C16_WitnessLeftOpen ==
    /\ tx.pc = "done" /\ tx.begun /\ tx.ret = <<"panic">>
    /\ tx.events = <<"Beginx", "fn", "Exec">>
    /\ database.open = 1

----------------------------------------------------------------------------
(* Properties of the field scan and of NewTable's failures *)

\* The positions of the fields of a record type: <<i>> is its i-th declared field,
\* p \o <<j>> the j-th declared field of the record embedded at p.
RECURSIVE Positions(_)
Positions(fs) ==
    UNION {{<<i>>} \cup (IF fs[i].anonymous THEN {<<i>> \o q : q \in Positions(fs[i].sub)} ELSE {}) :
              i \in 1..Len(fs)}
RECURSIVE FieldAt(_, _)
FieldAt(fs, p) == IF Len(p) = 1 THEN fs[p[1]] ELSE FieldAt(fs[p[1]].sub, Tail(p))
RECURSIVE NamesAt(_, _)
NamesAt(fs, p) ==
    IF Len(p) = 1 THEN <<fs[p[1]].name>> ELSE <<fs[p[1]].name>> \o NamesAt(fs[p[1]].sub, Tail(p))

\* p is declared before q: at the first index where they differ p has the smaller
\* one (the fields of an embedded record stand at the place of the embedding field).
DeclaredBefore(p, q) ==
    \E k \in 1..Len(p) :
        /\ k <= Len(q)
        /\ SubSeq(p, 1, k - 1) = SubSeq(q, 1, k - 1)
        /\ p[k] < q[k]

\* The positions of the fields that become columns: not embedding fields, exported
\* and reached through exported fields only, not skipped, mappable.
ColumnPositions(fs) ==
    {p \in Positions(fs) :
        /\ \A k \in 1..Len(p) : IsUpper(FieldAt(fs, SubSeq(p, 1, k)).name[1])
        /\ ~FieldAt(fs, p).anonymous
        /\ IsEligible(FieldAt(fs, p))}

\* The place of p among the positions S in declaration order.
Rank(S, p) == Cardinality({q \in S : DeclaredBefore(q, p)}) + 1

\* C17: the columns of the descriptor are the fields in declaration order, the
\* fields of an embedded record standing at the place of the embedding field; the
\* column entries of the CREATE TABLE statement, the column list of the INSERT
\* statement and the values bound for each record follow the same order.
C17_ColumnsFollowDeclarationOrder ==
    (Built /\ IsRecord(record) /\ Buildable(record.fields)) =>
        LET fs == record.fields
            V == ColumnPositions(fs)
            W == {p \in V : ~MarkedAuto(FieldAt(fs, p))}
            cols == tbl.Descriptor.Columns
            m == Cardinality(W)
        IN  /\ ~tbl.nil
            /\ Len(cols) = Cardinality(V)
            /\ \A p \in V : cols[Rank(V, p)].ActualName = FieldAt(fs, p).name
            /\ ddl # <<>> =>
                  \A p \in V :
                      /\ ddl[3 * Rank(V, p) + 2] = ColumnString(cols[Rank(V, p)])
                      /\ IsPrefix(<<BackQuote>> \o cols[Rank(V, p)].Name \o <<BackQuote, " ">>,
                                  ddl[3 * Rank(V, p) + 2])
            /\ Inserted =>
                  /\ Len(ListedColumns(out.stmt)) = m
                  /\ Len(out.args) = out.n * m
                  /\ \A p \in W :
                        /\ ListedColumns(out.stmt)[Rank(W, p)] = cols[Rank(V, p)].Name
                        /\ \A r \in 1..out.n :
                              LET a == out.args[(r - 1) * m + Rank(W, p)]
                              IN  /\ a.obj = r
                                  /\ a.path[Len(a.path)] = FieldAt(fs, p).name
                                  /\ (\A q \in Positions(fs) \ {p} :
                                          FieldAt(fs, q).name # FieldAt(fs, p).name)
                                     => a.path = NamesAt(fs, p)

\* struct { Name string; Audit } with Audit struct { Version; Model; Note } and
\* Model struct { ID; CreatedAt }: five columns, ID and CreatedAt between version
\* and note.
C17_Witness ==
    /\ record.fields = <<fName, fAudit>>
    /\ ddl # <<>>
    /\ Inserted /\ out.n = 2 /\ out.err = "nil"
    /\ [k \in 1..Len(tbl.Descriptor.Columns) |-> tbl.Descriptor.Columns[k].ActualName]
           = <<nName, nVersion, nID, nCreatedAt, nNote>>
    /\ ListedColumns(out.stmt) = <<(<<"n", "a", "m", "e">>), cVersion, (<<"n", "o", "t", "e">>)>>
    /\ out.args = <<Val(1, <<nName>>), Val(1, <<nAudit, nVersion>>), Val(1, <<nAudit, nNote>>),
                    Val(2, <<nName>>), Val(2, <<nAudit, nVersion>>), Val(2, <<nAudit, nNote>>)>>

\* A field that stops the build: exported, not skipped, of a kind without SQL type
\* and without the override directive.
StopsBuild(f) == ~IsSkipped(f) /\ ~IsMappable(f)
VisitedFields(fs) == {FieldAt(fs, p) : p \in {q \in Positions(fs) :
                        /\ \A k \in 1..Len(q) : IsUpper(FieldAt(fs, SubSeq(q, 1, k)).name[1])
                        /\ ~FieldAt(fs, q).anonymous}}

\* C18: when a field that is not skipped has a kind outside the type table and no
\* override directive, NewTable returns an error and no Table; a field of such a
\* kind that carries override becomes a column with an empty inferred type, the
\* text of its tag standing for the type.
C18_UnmappableKindNeedsOverride ==
    (Built /\ IsRecord(record)) =>
        /\ (\E f \in VisitedFields(record.fields) : StopsBuild(f)) =>
               (tbl.nil /\ tbl.err = "unmappable")
        /\ (\A f \in VisitedFields(record.fields) : ~StopsBuild(f)) =>
               /\ ~tbl.nil /\ tbl.err = "nil"
               /\ \A p \in ColumnPositions(record.fields) :
                     LET f == FieldAt(record.fields, p)
                         c == tbl.Descriptor.Columns[Rank(ColumnPositions(record.fields), p)]
                     IN  (f.type.kind = "Map" /\ HasDirective(f, "override")) =>
                             (c.Type = <<>> /\ c.OverrideType)

C18_Witness ==
    /\ Built
    /\ record.fields = <<fID, fExtra>>
    /\ ~tbl.nil
    /\ tbl.Descriptor.Columns[2].Type = <<>>
    /\ tbl.Descriptor.Columns[2].OverrideType
    /\ ddl # <<>>
    /\ ddl[8] = <<BackQuote, "e", "x", "t", "r", "a", BackQuote, " ", "JSON">>

C18_WitnessRejected ==
    /\ Built
    /\ record.fields = <<fID, fMeta>>
    /\ tbl.nil /\ tbl.err = "unmappable"

\* C19: for a root value that is neither a record nor a pointer to a record (the
\* nil value included) NewTable returns an error, and neither a descriptor nor a
\* Table.
C19_NonRecordRootIsAnError ==
    (Built /\ ~IsRecord(record)) =>
        /\ tbl.nil
        /\ tbl.err = "nodescriptor"
        /\ tbl.Descriptor = NilDescriptor
        /\ StructToTableDescriptor(record).nil

C19_Witness ==
    /\ Built
    /\ record = [kind |-> "Invalid", elem |-> "", fields |-> <<>>]
    /\ tbl.nil /\ tbl.err = "nodescriptor"

----------------------------------------------------------------------------
(* Properties of concurrent callers *)

\* C20: no operation of a Table writes to the Table, its descriptor or a column:
\* the Table stays as NewTable returned it, and whatever the other callers do
\* meanwhile, an operation returns the statement and the parameters it returns
\* when it runs alone on that Table.
C20_OperationsLeaveTableAlone ==
    /\ tbl = NewTable(TableName, record)
    /\ \A c \in DOMAIN thr :
          thr[c].pc = "done" =>
              thr[c].res = RunOn(NewTable(TableName, record), thr[c].op, thr[c].arg)

\* An Insert and an Update overlap: each one read a part of the columns while the
\* other was in its loop, and the Insert returned its statement.
C20_Witness ==
    /\ record.fields = <<fModel, fProfile>>
    /\ thr[1].pc = "done" /\ thr[1].op = "Insert" /\ thr[1].arg = 2
    /\ thr[2].pc = "loop" /\ thr[2].op = "Update" /\ thr[2].k = 3
    /\ thr[1].res.err = "nil"
    /\ Flatten(thr[1].res.stmt) =
           <<"INSERT INTO ", BackQuote, "u", "s", "e", "r", "s", BackQuote, " (",
             "n", "a", "m", "e", ",", "a", "g", "e", ") VALUES ", "(", "?", ",", "?", ")", ",",
             "(", "?", ",", "?", ")">>
    /\ thr[1].res.args = <<Val(1, <<nProfile, nName>>), Val(1, <<nProfile, nAge>>),
                           Val(2, <<nProfile, nName>>), Val(2, <<nProfile, nAge>>)>>

----------------------------------------------------------------------------
(* Properties of nested Selects *)

\* The field each mutator of a Select assigns, select.go:56-87.
MutatorField ==
    [As |-> "Alias", Where |-> "WhereCondition", GroupBy |-> "GroupByExpression",
     OrderBy |-> "OrderByExpression", Limit |-> "LimitResults"]
Mutators == DOMAIN MutatorField

Has(q, atom) == \E i \in 1..Len(q) : q[i] = atom

\* C21, as stated: a mutator does not change the SQL that Query() renders on a
\* handle to the Select that was obtained before the mutator was applied.
C21_MutatorsLeaveEarlierHandles ==
    [][out'.op \in Mutators =>
          \A j \in 1..Len(heap) : QueryOf(heap', j, tbl) = QueryOf(heap, j, tbl)]_vars

\* C21, amended: a mutator makes no new Select. It assigns its one field of the
\* Select it is called on and returns that same Select, every other field and
\* every other Select staying as it was, so that the SQL rendered on a handle
\* obtained before changes as soon as the mutator sets a clause that was unset.
C21_MutatorsAssignInPlace ==
    [][out'.op \in Mutators =>
          LET j == out'.n
              m == MutatorField[out'.op]
          IN  /\ Len(heap') = Len(heap)
              /\ j \in 1..Len(heap)
              /\ \A k \in (1..Len(heap)) \ {j} : heap'[k] = heap[k]
              /\ \A f \in (DOMAIN heap[j]) \ {m} : heap'[j][f] = heap[j][f]
              /\ heap'[j][m] # <<>>
              /\ heap[j][m] = <<>> => QueryOf(heap', j, tbl) # QueryOf(heap, j, tbl)]_vars

\* Where was called on the Select that table.Select returned, and the Query() of
\* that first handle has the WHERE clause.
C21_Witness ==
    /\ Len(heap) = 1
    /\ out = Returned("Where", 1)
    /\ Has(QueryOf(heap, 1, tbl), " WHERE ")

\* A clause as Query() writes it: its keyword and its text, nothing when unset.
ClauseIf(keyword, text) == IF text # <<>> THEN <<keyword>> \o text ELSE <<>>
LimitIf(limit) ==
    IF limit = <<>> THEN <<>>
    ELSE <<" LIMIT ">> \o Decimal(limit[1].Offset) \o <<", ">> \o Decimal(limit[1].RowCount)
ClausesOfSelect(s) ==
    ClauseIf(" AS ", s.Alias) \o ClauseIf(" WHERE ", s.WhereCondition)
    \o ClauseIf(" GROUP BY ", s.GroupByExpression) \o ClauseIf(" ORDER BY ", s.OrderByExpression)
    \o LimitIf(s.LimitResults)

\* The Select at j is nested on i Selects.
RECURSIVE Nesting(_, _)
Nesting(h, j) == IF h[j].From.kind = "Table" THEN 0 ELSE 1 + Nesting(h, h[j].From.ref)

\* C25: a Select nested on a Select, at any depth, renders as its source the whole
\* query of the inner Select in parentheses; the names in its field list and in
\* its clauses are resolved with the logical-to-physical names of the Table at the
\* bottom, whatever the inner Select lists; and Run, when the queryer succeeds,
\* returns a slice of pointers to the record type of that Table.
C25_NestedSelectUsesInnermostTable ==
    /\ \A j \in 1..Len(heap) :
          /\ heap[j].Fields = Resolved(IF heap[j].From.kind = "Table" THEN TableFieldText
                                       ELSE NestedFieldText)
          /\ \A m \in ClauseFields \ {"LimitResults"} : heap[j][m] \in {<<>>, Resolved(ClauseText)}
          /\ heap[j].From.kind = "Select" =>
                /\ heap[j].From.ref \in 1..(j - 1)
                /\ QueryOf(heap, j, tbl) =
                       <<"SELECT ">> \o heap[j].Fields \o <<" FROM ", "(">>
                       \o QueryOf(heap, heap[j].From.ref, tbl) \o <<")">>
                       \o ClausesOfSelect(heap[j])
    /\ out.op = "Run" =>
          /\ out.stmt = <<QueryOf(heap, out.n, tbl)>>
          /\ out.res = IF out.err # "nil" THEN [nil |-> TRUE]
                       ELSE [nil |-> FALSE, kind |-> "Slice",
                             elem |-> [kind |-> "Ptr",
                                       elem |-> [kind |-> "Struct", fields |-> record.fields]]]

\* A Select on a Select on a Select of the table was run: the inner Selects list
\* id only, the outer ones resolve Name all the same, and the rows come back as
\* pointers to the record of the table.
C25_Witness ==
    /\ record.fields = <<fModel, fProfile>>
    /\ Len(heap) = 3 /\ Nesting(heap, 3) = 2
    /\ heap[2].WhereCondition # <<>>
    /\ out.op = "Run" /\ out.n = 3 /\ out.err = "nil"
    /\ out.stmt = << <<"SELECT ", BackQuote, "n", "a", "m", "e", BackQuote, " FROM ", "(",
                       "SELECT ", BackQuote, "n", "a", "m", "e", BackQuote, " FROM ", "(",
                       "SELECT ", BackQuote, "i", "d", BackQuote, " FROM ",
                       BackQuote, "u", "s", "e", "r", "s", BackQuote, ")",
                       " WHERE ", BackQuote, "n", "a", "m", "e", BackQuote, " = ? ", ")">> >>
    /\ out.res.elem.elem.fields = <<fModel, fProfile>>

\* The SQL of the Select at j, written out from the Selects as they are in h.
RECURSIVE RenderedNow(_, _)
RenderedNow(h, j) ==
    <<"SELECT ">> \o h[j].Fields \o <<" FROM ">>
    \o (IF h[j].From.kind = "Table" THEN <<BackQuote>> \o TableName \o <<BackQuote>>
        ELSE <<"(">> \o RenderedNow(h, h[j].From.ref) \o <<")">>)
    \o ClausesOfSelect(h[j])

\* The Select at k is the Select at j or is nested, at some depth, on it.
RECURSIVE NestedOn(_, _, _)
NestedOn(h, k, j) ==
    k = j \/ (h[k].From.kind = "Select" /\ NestedOn(h, h[k].From.ref, j))

\* C30: a nested Select keeps the Select it was made from, not its SQL: what
\* Query() and Run render between the parentheses is the query of the inner Select
\* as that Select is when they are called, so that a mutator that sets a clause of
\* a Select changes the SQL of every Select nested on it.
C30_InnerSelectIsRenderedAtQueryTime ==
    [][/\ out'.op \in {"Query", "Run"} => out'.stmt = <<RenderedNow(heap', out'.n)>>
       /\ (out'.op \in Mutators /\ heap[out'.n][MutatorField[out'.op]] = <<>>) =>
              \A k \in 1..Len(heap) :
                  NestedOn(heap, k, out'.n) =>
                      /\ QueryOf(heap', k, tbl) # QueryOf(heap, k, tbl)
                      /\ QueryOf(heap', k, tbl) = RenderedNow(heap', k)]_vars

\* Where was called on the first Select after a second one was nested on it, and
\* Query() of the second one, which has no clause of its own, has the WHERE clause
\* inside the parentheses.
C30_Witness ==
    /\ record.fields = <<fModel, fProfile>>
    /\ Len(heap) = 2 /\ heap[2].From = FromRef(1)
    /\ ClausesOfSelect(heap[2]) = <<>>
    /\ out.op = "Query" /\ out.n = 2
    /\ out.stmt = << <<"SELECT ", BackQuote, "n", "a", "m", "e", BackQuote, " FROM ", "(",
                       "SELECT ", BackQuote, "i", "d", BackQuote, " FROM ",
                       BackQuote, "u", "s", "e", "r", "s", BackQuote,
                       " WHERE ", BackQuote, "n", "a", "m", "e", BackQuote, " = ? ", ")">> >>

\* The mutator was the last call, on a Select that another one is nested on.
C30_WitnessMutatedAfterNesting ==
    /\ Len(heap) = 3 /\ Nesting(heap, 3) = 2
    /\ out = Returned("GroupBy", 1)
    /\ Has(QueryOf(heap, 3, tbl), " GROUP BY ")

----------------------------------------------------------------------------
(* Properties of the calls of the queryer *)

Executing == {"Insert", "Update", "Delete", "Run"}

C26_WitnessPanic ==
    /\ out.op = "Update" /\ out.err = "panic"
    /\ tbl.Descriptor.PrimaryColumn = 0
    /\ calls = <<>>
----------------------------------------------------------------------------
(* Properties of tagged fields and of the CREATE TABLE statement *)

\* The positions of the fields the scan visits: exported, reached through exported
\* fields only, and not embedding fields.
VisitedPositions(fs) ==
    {p \in Positions(fs) :
        /\ \A k \in 1..Len(p) : IsUpper(FieldAt(fs, SubSeq(p, 1, k)).name[1])
        /\ ~FieldAt(fs, p).anonymous}

\* The visited fields that carry no skip signal.
KeptPositions(fs) == {p \in VisitedPositions(fs) : ~IsSkipped(FieldAt(fs, p))}

MapKeys(m) == {m[k][1] : k \in 1..Len(m)}

\* C22: a visited field is left out of Columns and of ColumnMap exactly when its
\* db tag is "-" or its sql tag has the directive "-": the columns are the other
\* visited fields, one each and in order, and the keys of ColumnMap are their
\* names.  A skipped field of a kind without SQL type does not fail the build, and
\* a skipped field marked primary neither becomes the primary column nor keeps the
\* first column from becoming it.
C22_SkippedFieldsAreLeftOut ==
    (Built /\ IsRecord(record)) =>
        LET fs == record.fields
            K == KeptPositions(fs)
            d == tbl.Descriptor
        IN  /\ tbl.nil <=> \E p \in K : ~IsMappable(FieldAt(fs, p))
            /\ ~tbl.nil =>
                  /\ Len(d.Columns) = Cardinality(K)
                  /\ \A p \in K : d.Columns[Rank(K, p)].ActualName = FieldAt(fs, p).name
                  /\ MapKeys(d.ColumnMap) = {FieldAt(fs, p).name : p \in K}
                  /\ (\A p \in K : ~MarkedPrimary(FieldAt(fs, p))) =>
                        d.PrimaryColumn = IF K = {} THEN 0 ELSE 1

\* Ghost is a map marked primary and skipped by its sql tag: the build succeeds
\* and Name is the only column and the primary one.
C22_Witness ==
    /\ Built
    /\ record.fields = <<fGhost, fName>>
    /\ ~tbl.nil
    /\ Len(tbl.Descriptor.Columns) = 1
    /\ tbl.Descriptor.ColumnMap = << <<nName, 1>> >>
    /\ tbl.Descriptor.PrimaryColumn = 1

\* Both fields are skipped, one by each tag: a Table without columns.
C22_WitnessNoColumns ==
    /\ Built
    /\ record.fields = <<fSecret, fCache>>
    /\ ~tbl.nil
    /\ tbl.Descriptor = NilDescriptor

\* The values of the name= directives of a field's sql tag, in the order written.
NameDirectives(f) ==
    LET cs == Split(f.sql, ",")
        named == SelectSeq(cs, LAMBDA c : Len(c) >= 2 /\ c[1] = "name" /\ c[2] = "=")
    IN  [k \in 1..Len(named) |-> SubSeq(named[k], 3, Len(named[k]))]

\* The snake-cased lower-case form of the identifiers of the untagged fields.
SnakeCased(name) ==
    CASE name = nName -> <<"n", "a", "m", "e">>
      [] name = nAge -> <<"a", "g", "e">>
      [] name = nUserID -> <<"u", "s", "e", "r", "_", "i", "d">>
      [] name = nOwnerID -> <<"o", "w", "n", "e", "r", "_", "i", "d">>
      [] name = nCreatedAt -> cCreatedAt
      [] OTHER -> <<"?">>

\* C23: the physical name of a column is the value of the last name= directive
\* of the field's sql tag if it has one, otherwise the field's db tag if that is
\* not empty, otherwise the snake-cased lower-case identifier; the logical name
\* is the identifier.
C23_PhysicalNamePrecedence ==
    (Built /\ IsRecord(record) /\ ~tbl.nil) =>
        LET fs == record.fields
            K == KeptPositions(fs)
        IN  \A p \in K :
                LET f == FieldAt(fs, p)
                    c == tbl.Descriptor.Columns[Rank(K, p)]
                    names == NameDirectives(f)
                IN  /\ c.ActualName = f.name
                    /\ c.Name = IF names # <<>> THEN names[Len(names)]
                                ELSE IF f.db # <<>> THEN f.db
                                ELSE SnakeCased(f.name)

\* Key has a db tag and two name= directives, UserID has neither.
C23_Witness ==
    /\ Built
    /\ record.fields = <<fKey, fUserID>>
    /\ ~tbl.nil
    /\ tbl.Descriptor.Columns[1].ActualName = nKey
    /\ tbl.Descriptor.Columns[1].Name = <<"u", "i", "d">>
    /\ tbl.Descriptor.Columns[2].ActualName = nUserID
    /\ tbl.Descriptor.Columns[2].Name = <<"u", "s", "e", "r", "_", "i", "d">>

\* A column definition as the claim words it.
Definition(c) ==
    <<BackQuote>> \o c.Name \o <<BackQuote, " ">>
    \o (IF c.OverrideType THEN c.Raw
        ELSE IF c.Raw # <<>> THEN c.Type \o <<" ">> \o c.Raw
        ELSE c.Type)

\* C24: between its first and its last line the CREATE TABLE statement has one
\* entry per line: the definitions of the descriptor's columns in their order,
\* then PRIMARY KEY (`name`) exactly when the descriptor has a primary column,
\* then the clauses of table.KeysAndIndices in their order; every entry but the
\* last is followed by a comma.  A definition is `name` type, then the raw text of
\* the tag when there is one; for an override column it is `name` and the raw text.
C24_CreateTableListsEntriesInOrder ==
    ddl # <<>> =>
        LET d == tbl.Descriptor
            n == Len(d.Columns)
            pk == IF d.PrimaryColumn # 0 THEN 1 ELSE 0
            keys == tbl.KeysAndIndices
            total == n + pk + Len(keys)
        IN  /\ Len(ddl) = 3 + 3 * total + 5
            /\ SubSeq(ddl, 1, 3) = <<(<<"CREATE TABLE IF NOT EXISTS ", BackQuote>>), TableName,
                                     (<<BackQuote, " (\n">>)>>
            /\ \A k \in 1..n : ddl[3 * k + 2] = Definition(d.Columns[k])
            /\ pk = 1 => ddl[3 * (n + 1) + 2] =
                             <<"PRIMARY KEY (", BackQuote>> \o d.Columns[d.PrimaryColumn].Name
                             \o <<BackQuote, ")">>
            /\ \A j \in 1..Len(keys) : ddl[3 * (n + pk + j) + 2] = keys[j]
            /\ \A k \in 1..total :
                  /\ ddl[3 * k + 1] = <<"\t">>
                  /\ ddl[3 * k + 3] = IF k < total THEN <<",\n">> ELSE <<"\n">>
            /\ ddl[3 * total + 4] = <<") ENGINE=">>

\* An override column, a column with a raw suffix, the primary key and two clauses
\* of the caller.
C24_Witness ==
    /\ record.fields = <<fVersion, fAge>>
    /\ tbl.KeysAndIndices = <<(<<"UNIQUE KEY by_id (id)">>), (<<"KEY by_name (name)">>)>>
    /\ Len(ddl) = 23
    /\ ddl[5] = <<BackQuote, "v", "e", "r", "s", "i", "o", "n", BackQuote, " ", "VARCHAR(64)">>
    /\ ddl[8] = <<BackQuote, "a", "g", "e", BackQuote, " ", "tinyint unsigned", " ", "DEFAULT 0">>
    /\ ddl[11] = <<"PRIMARY KEY (", BackQuote, "v", "e", "r", "s", "i", "o", "n", BackQuote, ")">>
    /\ ddl[14] = <<"UNIQUE KEY by_id (id)">>
    /\ ddl[17] = <<"KEY by_name (name)">>
    /\ ddl[15] = <<",\n">> /\ ddl[18] = <<"\n">>

\* A marked primary field leaves the descriptor without primary column: no
\* PRIMARY KEY entry, the caller's clause follows the column.
C24_WitnessNoPrimaryKey ==
    /\ record.fields = <<fUserID>>
    /\ tbl.KeysAndIndices = <<(<<"KEY by_name (name)">>)>>
    /\ Len(ddl) = 14
    /\ ddl[8] = <<"KEY by_name (name)">>

\* C29, as stated: ColumnMap has exactly one entry for each element of Columns,
\* under that column's logical name.
C29_OneEntryPerColumn ==
    (Built /\ ~tbl.nil) =>
        LET cols == tbl.Descriptor.Columns
            m == tbl.Descriptor.ColumnMap
        IN  /\ Len(m) = Len(cols)
            /\ \A k \in 1..Len(cols) : \E i \in 1..Len(m) : m[i] = <<cols[k].ActualName, k>>

\* C29, amended: ColumnMap has exactly one entry for each logical name that
\* occurs among the Columns, and the entry is the last column of that name; it
\* has one entry per column exactly when the logical names of the columns differ,
\* which they need not when embedded records are flattened.
C29_OneEntryPerLogicalName ==
    (Built /\ ~tbl.nil) =>
        LET cols == tbl.Descriptor.Columns
            m == tbl.Descriptor.ColumnMap
            named(x) == {k \in 1..Len(cols) : cols[k].ActualName = x}
        IN  /\ \A i, j \in 1..Len(m) : i # j => m[i][1] # m[j][1]
            /\ MapKeys(m) = {cols[k].ActualName : k \in 1..Len(cols)}
            /\ \A i \in 1..Len(m) :
                  /\ m[i][2] \in named(m[i][1])
                  /\ \A k \in named(m[i][1]) : k <= m[i][2]
            /\ Len(m) = Len(cols) <=>
                  \A k, l \in 1..Len(cols) : k # l => cols[k].ActualName # cols[l].ActualName

\* struct { ID int64 `db:"row_id"`; Model } with Model struct { ID; CreatedAt }:
\* three columns, two entries, and ID stands for the column of Model.ID.
C29_Witness ==
    /\ Built
    /\ record.fields = <<fRowID, fModel>>
    /\ ~tbl.nil
    /\ [k \in 1..3 |-> tbl.Descriptor.Columns[k].Name] = <<(<<"r", "o", "w", "_", "i", "d">>), cID, cCreatedAt>>
    /\ tbl.Descriptor.ColumnMap = << <<nID, 2>>, <<nCreatedAt, 3>> >>


----------------------------------------------------------------------------
(* Properties of the stored version *)

\* The version the bookkeeping table holds: none before the row exists.
StoredVersion(st) == IF st.rows = <<>> THEN <<>> ELSE st.rows[1].version

\* No group of the run has its version in (stored, target].
NothingDue == Running /\ LexLT(StartVersion, target) /\ Expected = <<>>

\* C28: a run whose target is greater than the stored version and for which no
\* supplied group lies in (stored, target], the empty list included, invokes no
\* migration, and unless the queryer fails it sets the stored version to the
\* target and returns success; and no step of any run makes the stored version
\* lower, in the order of the comparison, than it was.
C28_NothingDueStillSetsTarget ==
    [][/\ NothingDue' =>
              /\ Attempted' = <<>>
              /\ pc' # "migrate"
              /\ (pc' = "done" /\ NoQueryerError') =>
                    /\ result' = "nil"
                    /\ OpsOf(log')[Len(log')] = "UPDATE"
                    /\ store'.rows = <<[id |-> 1, version |-> target', date |-> runs']>>
       /\ ~LexLT(StoredVersion(store'), StoredVersion(store))
       /\ store.rows # <<>> => store'.rows # <<>>]_vars

\* The groups supplied lie outside (stored, target]: nothing was invoked and the
\* version went from 1.0 to 1.2.
C28_Witness ==
    /\ pc = "done" /\ result = "nil"
    /\ HadRow /\ StartVersion = V1_0 /\ target = V1_2
    /\ versions = <<[version |-> V10, migrations |-> 2]>>
    /\ Attempted = <<>>
    /\ store.rows = <<[id |-> 1, version |-> V1_2, date |-> runs]>>

\* The same with no group at all, on a database without bookkeeping row.
C28_WitnessEmptyList ==
    /\ pc = "done" /\ result = "nil"
    /\ ~HadRow /\ versions = <<>>
    /\ OpsOf(log) = <<"CREATE", "SELECT", "INSERT", "UPDATE">>
    /\ store.rows = <<[id |-> 1, version |-> target, date |-> runs]>>

----------------------------------------------------------------------------
(* Properties of a retried migration run *)

\* C27: a run that failed in a migration has left the stored version as it had
\* read it, and nothing it applied is undone; the retry with the same target and
\* versions therefore finds every migration the failed run invoked, the ones that
\* had succeeded included, due again: it invokes the migrations of the groups in
\* (stored, target] from the first one, in order, and sets the version only after
\* the last of them.
C27_RetryAppliesAgainFromFirst ==
    prev # NoFailedRun =>
        /\ prev.invoked # <<>>
        /\ HadRow /\ StartVersion = prev.stored
        /\ IsPrefix(prev.invoked, Expected)
        /\ IsPrefix(Attempted, Expected)
        /\ pc = "migrate" => <<gi, mi>> = Expected[Len(Attempted) + 1]
        /\ (pc = "update" \/ (pc = "done" /\ result = "nil")) => Attempted = Expected
        /\ store.rows[1].version # prev.stored =>
              (store.rows[1].version = target /\ Attempted = Expected)

\* The first run invoked migration 1 of the first group, which succeeded, and
\* migration 2, which failed; the retry invoked both again and set the version.
C27_Witness ==
    /\ runs = 2
    /\ prev = [invoked |-> <<<<1, 1>>, <<1, 2>>>>, stored |-> V0]
    /\ pc = "done" /\ result = "nil"
    /\ Attempted = <<<<1, 1>>, <<1, 2>>>>
    /\ store.rows = <<[id |-> 1, version |-> target, date |-> 2]>>

====
